---- MODULE Spec2Model ----
(***************************************************************************)
(* HermitBench: the turn-taking engine (run_autonomous_interaction) and    *)
(* the batch orchestrator (run_batch_interaction) of                       *)
(* app/core/hermit_bench.py, as a state machine whose steps are the        *)
(* suspension points of the coroutine: the return of a chat completion,    *)
(* the return of the judge, and the start of the next batch task.          *)
(*                                                                         *)
(* A text is a sequence of tokens: "{" and "}" are the brace characters,   *)
(* every other token stands for a brace-free piece of text.  An Optional   *)
(* value is a sequence of length at most one (<<>> is Python's None).      *)
(***************************************************************************)
EXTENDS Integers, Sequences, FiniteSets, TLC

VARIABLES
    models,              \* argument: the list of model identifiers
    num_runs_per_model,  \* argument
    max_turns,           \* argument
    task_delay_ms,       \* argument
    progress_callback,   \* argument: TRUE when a callback is provided
    initial_prompt,      \* self.initial_prompt
    gateway_pool,        \* what the completion provider may answer
    judge_pool,          \* what the judge may answer
    pc,                  \* "task" | "completion" | "judge" | "done"
    model_idx,           \* position of the outer loop in models (1-based)
    run_index,           \* inner loop variable
    results,             \* model identifier -> list of RunResult
    total_tasks,
    completed_tasks,
    conversation,        \* the run's Conversation.messages
    result,              \* the run's RunResult
    braced_content,
    turn,
    messages,            \* the request context of the completion in flight
    next_run_id,         \* source of fresh run identifiers
    task_log,            \* history: tasks issued, with their outcome
    progress_calls,      \* history: arguments of the callback invocations
    sleeps,              \* history: inter-task delays taken
    completion_calls,    \* history: completion requests of the current run
    chat_completion_calls, \* history: completion requests of the whole batch
    judge_calls,         \* history: judge requests of the current run
    judged,              \* history: the conversation handed to the judge
    genuine_turns,       \* history: replies of the provider logged in the run
    gateway_errors,      \* history: completion calls of the run that raised
    judge_outcome,       \* history: how the evaluation of the run went
    stop,                \* history: how the turn loop of the current run ended
    summaries,           \* the host's stored rows: model and ModelSummary
    batch_status,        \* the host's status of the batch
    summary_calls,       \* history: the lists handed to generate_model_summary
    synthesis_calls,     \* history: the lists handed to the judge's synthesis
    persona_cards,       \* what generate_persona_cards returned
    persona_calls,       \* history: the lists handed to generate_persona_card
    persona_outcomes,    \* history: what the judge did for each model's card
    summary_arg,         \* the argument of a direct generate_model_summary
    summary_ret,         \* what that call returned or raised
    json_text,           \* the argument of a direct _extract_json_from_text
    json_parts,          \* how that text was put together
    json_ret,            \* what that call returned or raised
    request_method,      \* the method argument of a _make_request call
    request_pc,          \* "idle" | "call" | "http" | "sleep" | "done"
    tries,               \* the decorator's count of tries
    max_time_exceeded,   \* whether max_time had passed when the try began
    attempts,            \* history: the outcomes of the HTTP attempts
    request_ret,         \* what the decorated call returned or raised
    engine,              \* "new" | "built" | "raised": HermitBench(settings)
    prompt_file,         \* the state of prompts/initial_prompt.json
    brace_text,          \* the argument of a direct _extract_braced_content
    brace_ret,           \* what that call returned
    card_results,        \* the argument of a direct generate_persona_card
    card_prompt,         \* the aggregates that call put in its prompt
    card_ret,            \* what that call returned or raised
    test_response,       \* the response of POST /api/test-run
    test_task,           \* the background task of that request
    callback_pool,       \* what the progress callback may do when called
    db_pool,             \* what a persistence operation of the host may do
    callback_errors,     \* history: callback invocations that raised
    last_response        \* the response to the latest request about a batch

vars == <<models, num_runs_per_model, max_turns, task_delay_ms,
          progress_callback, callback_pool, db_pool, initial_prompt, gateway_pool, judge_pool, pc,
          model_idx, run_index, results, total_tasks, completed_tasks,
          conversation, result, braced_content, turn, messages, next_run_id,
          task_log, progress_calls, callback_errors, sleeps, completion_calls,
          chat_completion_calls, judge_calls, judged, genuine_turns,
          gateway_errors, judge_outcome, stop, summaries, batch_status,
          summary_calls, synthesis_calls, persona_cards, persona_calls,
          persona_outcomes, summary_arg, summary_ret, json_text, json_parts,
          json_ret, request_method, request_pc, tries, max_time_exceeded,
          attempts, request_ret, engine, prompt_file,
          brace_text, brace_ret,
          card_results, card_prompt, card_ret,
          test_response, test_task,
          last_response>>

(***************************************************************************)
(* Bounds                                                                  *)
(***************************************************************************)
MaxTurns == 3
MaxNesting == 1
MaxText == 6
MaxCardRuns == 3
MaxModels == 2
MaxRuns == 2
MaxResults == 2

(***************************************************************************)
(* Values                                                                  *)
(***************************************************************************)
None == <<>>
Some(v) == <<v>>

\* a model identifier that is not a str (Python None in the models list)
BadModel == "None"
ModelIds == {"m1", "m2", BadModel}

\* a template value that is not a str (e.g. a JSON array under the key)
NonStr == <<"#not-a-str">>
Prompt == <<"initial instruction">>

SystemText == <<"You are engaging in an autonomous interaction.">>

FallbackReply ==
    <<"I apologize for the error. Let me try a different approach. ", "{",
      "I'll attempt to continue our conversation by exploring a new topic.",
      "}">>

PreservedPrefix ==
    <<"SYSTEM NOTE: The following content was preserved for the next turn: ">>
NothingPreserved ==
    <<"SYSTEM NOTE: No content in braces was found to preserve for the next turn.">>
EndingNote ==
    <<"SYSTEM NOTE: Ending conversation as no content was found in braces.">>

Message(role, content) == [role |-> role, content |-> content]

\* as add_message, with the message put in front of the log
add_message_first(conv, role, content) == <<Message(role, content)>> \o conv

\* Conversation.add_message
add_message(conv, role, content) == Append(conv, Message(role, content))

(***************************************************************************)
(* _extract_braced_content: re.findall of an open brace, a maximal run of  *)
(* non-brace characters (the captured group) and a close brace             *)
(***************************************************************************)
IsBrace(c) == c \in {"{", "}"}

\* index of the first brace at or after position i, 0 when there is none
RECURSIVE NextBrace(_, _)
NextBrace(text, i) ==
    IF i > Len(text) THEN 0
    ELSE IF IsBrace(text[i]) THEN i
    ELSE NextBrace(text, i + 1)

RECURSIVE ExtractFrom(_, _)
ExtractFrom(text, i) ==
    IF i > Len(text) THEN <<>>
    ELSE IF text[i] # "{" THEN ExtractFrom(text, i + 1)
    ELSE LET j == NextBrace(text, i + 1)
         IN  IF j # 0 /\ text[j] = "}"
             THEN <<SubSeq(text, i + 1, j - 1)>> \o ExtractFrom(text, j + 1)
             ELSE ExtractFrom(text, i + 1)

\* as extract_braced_content, with the first match only
search_braced_content(text) ==
    IF ExtractFrom(text, 1) = <<>> THEN <<>> ELSE <<ExtractFrom(text, 1)[1]>>

\* re.findall(pattern, text)
extract_braced_content(text) == ExtractFrom(text, 1)

\* braced_content = braces_content[0] if braces_content else ""
FirstSpan(text) ==
    LET braces_content == extract_braced_content(text)
    IN  IF braces_content # <<>> THEN braces_content[1] ELSE <<>>

(***************************************************************************)
(* RunResult and the judge's evaluation                                    *)
(***************************************************************************)
NewRunResult(model_name, run_id, conv) ==
    [model_name |-> model_name, run_id |-> run_id, conversation |-> conv,
     compliance_rate |-> None, failure_count |-> None,
     malformed_braces_count |-> None, mirror_test_passed |-> None,
     autonomy_score |-> None, turns_count |-> 0, topics |-> <<>>,
     exploration_style |-> None, judge_evaluation |-> None]

JudgeFields ==
    {"compliance_rate", "failure_count", "malformed_braces_count",
     "mirror_test_passed", "autonomy_score", "topics", "exploration_style",
     "judge_evaluation"}

\* a JSON object of the judge: every key is Optional (<<>> = key absent);
\* compliance_rate is in percent, autonomy_score in tenths
FullEvaluation ==
    [compliance_rate |-> Some(80), failure_count |-> Some(1),
     malformed_braces_count |-> Some(0), mirror_test_passed |-> Some(TRUE),
     autonomy_score |-> Some(75), topics |-> Some(<<"philosophy">>),
     exploration_style |-> Some("introspective"),
     detailed_analysis |-> Some("analysis"), error |-> None,
     raw_text |-> None]

\* the second run of tests/test_hermit_bench.py, and two more evaluations
SecondEvaluation ==
    [FullEvaluation EXCEPT !.compliance_rate = Some(90),
                           !.failure_count = Some(0),
                           !.autonomy_score = Some(80),
                           !.topics = Some(<<"creativity">>),
                           !.exploration_style = Some("creative")]

ThirdEvaluation ==
    [FullEvaluation EXCEPT !.compliance_rate = Some(10),
                           !.failure_count = Some(2),
                           !.malformed_braces_count = Some(1),
                           !.mirror_test_passed = Some(FALSE),
                           !.autonomy_score = Some(33)]

FourthEvaluation ==
    [FullEvaluation EXCEPT !.compliance_rate = Some(100),
                           !.failure_count = Some(0),
                           !.malformed_braces_count = Some(3),
                           !.autonomy_score = Some(100)]

\* _extract_json_from_text's error object
ErrorObject ==
    [compliance_rate |-> None, failure_count |-> None,
     malformed_braces_count |-> None, mirror_test_passed |-> None,
     autonomy_score |-> None, topics |-> None, exploration_style |-> None,
     detailed_analysis |-> None,
     error |-> Some("Could not extract valid JSON from response"),
     raw_text |-> Some("raw")]

\* dict.get(key, default)
Get(d, key, default) == IF d[key] = None THEN default ELSE d[key][1]

\* as ApplyEvaluation, left after the first of the assignments
ApplyEvaluationFirstOnly(res, evaluation) ==
    [res EXCEPT
        !.compliance_rate = Some(Get(evaluation, "compliance_rate", 0))]

\* the eight assignments that follow a returned evaluation
ApplyEvaluation(res, evaluation) ==
    [res EXCEPT
        !.compliance_rate = Some(Get(evaluation, "compliance_rate", 0)),
        !.failure_count = Some(Get(evaluation, "failure_count", 0)),
        !.malformed_braces_count =
            Some(Get(evaluation, "malformed_braces_count", 0)),
        !.mirror_test_passed =
            Some(Get(evaluation, "mirror_test_passed", FALSE)),
        !.autonomy_score = Some(Get(evaluation, "autonomy_score", 0)),
        !.topics = Get(evaluation, "topics", <<>>),
        !.exploration_style =
            Some(Get(evaluation, "exploration_style", "Unknown")),
        !.judge_evaluation = Some(evaluation)]

(***************************************************************************)
(* The collaborators' answers                                              *)
(***************************************************************************)
Replies ==
    { <<"a">>,                                   \* no brace span
      <<"a", "{", "b", "}", "c">>,               \* one span inside prose
      <<"{", "b", "}", "{", "c", "}">>,          \* two spans
      <<"{", "}", "a">>,                         \* an empty span
      <<"{", "a", "{", "b", "}", "c", "}">> }    \* nested braces

\* ok: a reply with str content; error: chat_completion raises (or the
\* response has no choice to index); null: the content is not a str
GatewayOutcomes ==
    { [kind |-> "ok", content |-> r] : r \in Replies }
    \cup { [kind |-> "error", content |-> <<>>],
           [kind |-> "null", content |-> <<>>] }

\* value: evaluate_conversation returns a JSON object; nondict: it returns a
\* JSON value that is not an object; raise: it raises
JudgeOutcomes ==
    { [kind |-> "value", value |-> FullEvaluation],
      [kind |-> "value", value |-> ErrorObject],
      [kind |-> "nondict", value |-> ErrorObject],
      [kind |-> "raise", value |-> ErrorObject] }

\* how the evaluations of the runs handed to a summary may have gone
SummaryOutcomes ==
    { [kind |-> "value", value |-> FullEvaluation],
      [kind |-> "value", value |-> SecondEvaluation],
      [kind |-> "value", value |-> ThirdEvaluation],
      [kind |-> "value", value |-> FourthEvaluation],
      [kind |-> "value", value |-> ErrorObject],
      [kind |-> "raise", value |-> ErrorObject] }

(***************************************************************************)
(* run_autonomous_interaction: the pieces of one loop iteration            *)
(***************************************************************************)
\* as BuildMessages, without the reset of the context from turn 1 on
BuildMessagesFull(t, conv, braced) ==
    [i \in 1..Len(conv) |->
        [role |-> conv[i].role, content |-> conv[i].content]]

\* the request context of a turn: the logged conversation, replaced from
\* turn 1 on by the system message and the preserved span
BuildMessages(t, conv, braced) ==
    IF t > 0
    THEN << [role |-> "system", content |-> SystemText],
            [role |-> "user", content |-> braced] >>
    ELSE [i \in 1..Len(conv) |->
            [role |-> conv[i].role, content |-> conv[i].content]]

\* the inner try: the reply's content, or the canned reply when the call
\* raised
AssistantMessage(o) == IF o.kind = "ok" THEN o.content ELSE FallbackReply

\* Message(role, content) validates content: a content that is not a str
\* raises out of add_message
AddMessageRaises(o) == o.kind = "null"

PreservedNote(braced) ==
    IF braced # <<>> THEN PreservedPrefix \o braced ELSE NothingPreserved

\* as TurnsCountAfter, without the increment
TurnsCountAfterKept(n) == n

\* as TurnsCountAfter, counting the turn twice
TurnsCountAfterTwice(n) == n + 2

\* result.turns_count += 1
TurnsCountAfter(n) == n + 1

\* as StopsOnEmpty, with the rule applied to turn 0 as well
StopsOnEmptyAnyTurn(braced, t) == braced = <<>>

\* if not braced_content and turn > 0: ... break
StopsOnEmpty(braced, t) == braced = <<>> /\ t > 0

\* as HasNextTurn, with one more iteration than range(max_turns) has
HasNextTurnOneMore(t, mt) == t < mt

\* for turn in range(max_turns)
HasNextTurn(t, mt) == t + 1 < mt

\* except Exception around the body of a turn
TurnErrorCaught(o) == TRUE

\* as EvaluationErrorCaught, catching only what evaluate_conversation raises
EvaluationErrorCaughtNarrow(o) == o.kind = "raise"

\* except Exception around the evaluation
EvaluationErrorCaught(o) == TRUE

\* as FailedEvaluationResult, with the assignments made from an empty
\* evaluation
FailedEvaluationResultZeroed(res, conv) ==
    ApplyEvaluation([res EXCEPT !.conversation = conv], ErrorObject)

\* the except branch of the evaluation: nothing of the result is assigned,
\* the note goes to the conversation the result owns
FailedEvaluationResult(res, conv) == [res EXCEPT !.conversation = conv]

\* as AfterLoop, with a return in place of the break of the error branch
AfterLoopReturnsOnError(reason) ==
    IF reason = "error" THEN "return" ELSE "judge"

\* the statement reached when the loop has been left for the given reason
AfterLoop(reason) == "judge"

TurnErrorNote(t) ==
    <<"SYSTEM ERROR: Error in turn ", ToString(t + 1), ": validation error">>

EvaluationErrorNote(o) ==
    <<"EVALUATION ERROR: Error in evaluation: ", o.kind>>

\* the part of the run that raises before the first try block: the user
\* message needs a str prompt, RunResult needs a str model_name
SetupRaises(model_name, prompt) == model_name = BadModel \/ prompt = NonStr

\* as NewConversation, with a conversation kept across runs
NewConversationCarried(prompt) ==
    add_message(add_message(conversation, "system", SystemText),
                "user", prompt)

NewConversation(prompt) ==
    add_message(add_message(<<>>, "system", SystemText), "user", prompt)

NoRun == NewRunResult("", 0, <<>>)
NoStop == [reason |-> "none", turn |-> 0]

(***************************************************************************)
(* run_batch_interaction: the loops                                        *)
(***************************************************************************)
ModelSet(ms) == {ms[i] : i \in 1..Len(ms)}

\* results = {model: [] for model in models}
NewResults(ms) == [m \in ModelSet(ms) |-> <<>>]

HasTasks(ms, runs) == Len(ms) > 0 /\ runs > 0

\* the loop position after the task at (mi, ri): <<model_idx, run_index, pc>>
Advance(mi, ri) ==
    IF ri + 1 < num_runs_per_model THEN <<mi, ri + 1, "task">>
    ELSE IF mi < Len(models) THEN <<mi + 1, 0, "task">>
    ELSE <<mi, ri, "done">>

\* as AppendResult, inserting at the front
AppendResultFront(lst, res) == <<res>> \o lst

\* as AppendResult, with the one RunResult object reused by every run, so
\* that the entries already in the list show the latest run
AppendResultShared(lst, res) == [i \in 1..(Len(lst) + 1) |-> res]

\* results[model].append(result)
AppendResult(lst, res) == Append(lst, res)

\* the condition of the delay between tasks
DelayAfter(mi, ri) ==
    /\ task_delay_ms > 0
    /\ (ri < num_runs_per_model - 1 \/ models[mi] # models[Len(models)])

SetStatus(log, status) == [log EXCEPT ![Len(log)].status = status]

\* as CompletedAfter, without the increment
CompletedAfterKept(n) == n

\* completed_tasks += 1
CompletedAfter(n) == n + 1

\* progress_callback(completed_tasks, total_tasks)
ProgressArgs(completed, total) == <<completed, total>>

\* as AfterCallback, with the exception of the callback leaving the batch
AfterCallbackAbort(c, nxt) ==
    IF c = "raise" THEN <<nxt[1], nxt[2], "done">> ELSE nxt

\* the callback raised inside the try of the batch loop: except Exception
\* logs the error and the loops go on from the position nxt
AfterCallback(c, nxt) == nxt

\* the engine returned res to the batch loop
ReturnToBatch(res, log) ==
    LET model == models[model_idx]
    IN  \E c \in (IF progress_callback THEN callback_pool ELSE {"ok"}) :
        LET nxt == AfterCallback(c, Advance(model_idx, run_index))
        IN  /\ results' = [results EXCEPT ![model] = AppendResult(@, res)]
            /\ completed_tasks' = CompletedAfter(completed_tasks)
            /\ progress_calls' =
                   IF progress_callback
                   THEN Append(progress_calls,
                               ProgressArgs(completed_tasks', total_tasks))
                   ELSE progress_calls
            /\ callback_errors' =
                   callback_errors + (IF c = "raise" THEN 1 ELSE 0)
            /\ sleeps' = IF c = "ok" /\ DelayAfter(model_idx, run_index)
                         THEN Append(sleeps, <<model_idx, run_index>>)
                         ELSE sleeps
            /\ task_log' = SetStatus(log, "returned")
            /\ model_idx' = nxt[1]
            /\ run_index' = nxt[2]
            /\ pc' = nxt[3]

\* as RaiseToBatch, with the exception ending the batch
RaiseToBatchAbort(log) ==
    /\ task_log' = SetStatus(log, "raised")
    /\ pc' = "done"
    /\ UNCHANGED <<results, completed_tasks, progress_calls, callback_errors, sleeps,
                   model_idx, run_index>>

\* the engine raised: except Exception of the batch loop
RaiseToBatch(log) ==
    LET nxt == Advance(model_idx, run_index)
    IN  /\ task_log' = SetStatus(log, "raised")
        /\ model_idx' = nxt[1]
        /\ run_index' = nxt[2]
        /\ pc' = nxt[3]
        /\ UNCHANGED <<results, completed_tasks, progress_calls, callback_errors, sleeps>>

StayInRun(newpc, log) ==
    /\ pc' = newpc
    /\ task_log' = log
    /\ UNCHANGED <<results, completed_tasks, progress_calls, callback_errors, sleeps,
                   model_idx, run_index>>

\* the turn loop is left at turn t for the given reason
LeaveLoop(reason, t, log) ==
    /\ stop' = [reason |-> reason, turn |-> t]
    /\ IF AfterLoop(reason) = "judge"
       THEN /\ judge_calls' = judge_calls + 1
            /\ judged' = conversation'
            /\ StayInRun("judge", log)
       ELSE /\ judge_calls' = judge_calls
            /\ judged' = judged
            /\ ReturnToBatch(result', log)

args == <<models, num_runs_per_model, max_turns, task_delay_ms,
          progress_callback, callback_pool, db_pool, initial_prompt, gateway_pool, judge_pool,
          total_tasks>>

run_state == <<conversation, result, braced_content, turn, messages,
               next_run_id, completion_calls, chat_completion_calls,
               judge_calls, judged, genuine_turns, gateway_errors,
               judge_outcome, stop>>

batch_state == <<model_idx, run_index, results, completed_tasks, task_log,
                 progress_calls, callback_errors, sleeps>>

host == <<summaries, batch_status, summary_calls, synthesis_calls,
          persona_cards, persona_calls, persona_outcomes>>

extraction == <<json_text, json_parts, json_ret>>

request == <<request_method, request_pc, tries, max_time_exceeded, attempts,
             request_ret>>

construction == <<engine, prompt_file>>

brace_call == <<brace_text, brace_ret>>

card_call == <<card_results, card_prompt, card_ret>>

test_run == <<test_response, test_task>>

route == <<last_response>>

(***************************************************************************)
(* Python floats (IEEE 754 binary64) for the non-negative values of a      *)
(* summary.  A float is a 53-bit significand (bits, most significant       *)
(* first, the first one set) and a binary exponent: its value is           *)
(* sig * 2^exp; zero has the empty significand.  Every operation computes  *)
(* the exact result and rounds it once, to nearest, ties to even.          *)
(***************************************************************************)
SigBits == 53

Zero == [sig |-> <<>>, exp |-> 0]

Zeros(n) == [i \in 1..n |-> 0]

\* digits without their leading zeros
StripZeros(b) ==
    IF \A i \in 1..Len(b) : b[i] = 0 THEN <<>>
    ELSE LET first == CHOOSE i \in 1..Len(b) :
                          b[i] = 1 /\ \A j \in 1..(i - 1) : b[j] = 0
         IN  SubSeq(b, first, Len(b))

\* the binary digits of a natural number
RECURSIVE IntBits(_)
IntBits(n) == IF n = 0 THEN <<>> ELSE Append(IntBits(n \div 2), n % 2)

\* b + 1, for digits b that are not all ones
Incr(b) ==
    LET last == CHOOSE i \in 1..Len(b) :
                    b[i] = 0 /\ \A j \in (i + 1)..Len(b) : b[j] = 1
    IN  SubSeq(b, 1, last - 1) \o <<1>> \o Zeros(Len(b) - last)

HasOne(b, from) == \E i \in from..Len(b) : b[i] = 1

\* the float nearest to (b + f) * 2^e, where 0 < f < 1 if sticky, else f = 0
Round(b, e, sticky) ==
    LET s == StripZeros(b)
        n == Len(s)
    IN  IF n = 0 THEN Zero
        ELSE IF n <= SigBits
        THEN [sig |-> s \o Zeros(SigBits - n), exp |-> e - (SigBits - n)]
        ELSE LET head == SubSeq(s, 1, SigBits)
                 up == /\ s[SigBits + 1] = 1
                       /\ (HasOne(s, SigBits + 2) \/ sticky
                              \/ head[SigBits] = 1)
                 e2 == e + (n - SigBits)
             IN  IF ~up THEN [sig |-> head, exp |-> e2]
                 ELSE IF \A i \in 1..SigBits : head[i] = 1
                 THEN [sig |-> <<1>> \o Zeros(SigBits - 1), exp |-> e2 + 1]
                 ELSE [sig |-> Incr(head), exp |-> e2]

\* long division of the digits i..j of b by a small d, entered with
\* remainder r: <<digits of the quotient, remainder>>
RECURSIVE DivBits(_, _, _, _, _)
DivBits(b, i, j, d, r) ==
    IF i > j THEN <<(<<>>), r>>
    ELSE IF i = j
    THEN LET t == 2 * r + b[i]
             q == IF t >= d THEN 1 ELSE 0
         IN  << <<q>>, t - q * d >>
    ELSE LET m == (i + j) \div 2
             left == DivBits(b, i, m, d, r)
             right == DivBits(b, m + 1, j, d, left[2])
         IN  << left[1] \o right[1], right[2] >>

\* digits added to a dividend so that the quotient has more than SigBits + 1
\* significant digits (d < 2^10)
ExtraBits == SigBits + 12

\* the float nearest to b * 2^e / d
Quot(b, e, d) ==
    IF b = <<>> THEN Zero
    ELSE LET qr == DivBits(b \o Zeros(ExtraBits), 1, Len(b) + ExtraBits,
                           d, 0)
         IN  IF qr[2] = 0 THEN Round(qr[1], e - ExtraBits, FALSE)
             ELSE Round(qr[1], e - ExtraBits, TRUE)

Reverse(s) == [i \in 1..Len(s) |-> s[Len(s) + 1 - i]]

\* the digits i..j of a + b with carry c into digit j:
\* <<digits, the last one first, carry out of digit i>>
RECURSIVE AddCarry(_, _, _, _, _)
AddCarry(a, b, i, j, c) ==
    IF i > j THEN <<(<<>>), c>>
    ELSE IF i = j
    THEN LET t == a[i] + b[i] + c
         IN  << <<t % 2>>, t \div 2 >>
    ELSE LET m == (i + j) \div 2
             low == AddCarry(a, b, m + 1, j, c)
             high == AddCarry(a, b, i, m, low[2])
         IN  << low[1] \o high[1], high[2] >>

\* the digits i..j of b * k for a small k, with carry c into digit j:
\* <<digits, the last one first, carry out of digit i>>
RECURSIVE MulCarry(_, _, _, _, _)
MulCarry(b, i, j, k, c) ==
    IF i > j THEN <<(<<>>), c>>
    ELSE IF i = j
    THEN LET t == b[i] * k + c
         IN  << <<t % 2>>, t \div 2 >>
    ELSE LET m == (i + j) \div 2
             low == MulCarry(b, m + 1, j, k, c)
             high == MulCarry(b, i, m, k, low[2])
         IN  << low[1] \o high[1], high[2] >>

\* float(n) of an int
FromInt(n) == Round(IntBits(n), 0, FALSE)

\* the float a decimal literal v / d denotes (d a power of ten)
Literal(v, d) == Quot(IntBits(v), 0, d)

\* x + y on floats
FAdd(x, y) ==
    IF x = Zero THEN y
    ELSE IF y = Zero THEN x
    ELSE LET e == IF x.exp < y.exp THEN x.exp ELSE y.exp
             a == x.sig \o Zeros(x.exp - e)
             b == y.sig \o Zeros(y.exp - e)
             n == IF Len(a) > Len(b) THEN Len(a) ELSE Len(b)
             sum == AddCarry(Zeros(n - Len(a)) \o a,
                             Zeros(n - Len(b)) \o b, 1, n, 0)
             digits == <<sum[2]>> \o Reverse(sum[1])
         IN  IF digits = <<>> THEN Zero ELSE Round(digits, e, FALSE)

\* x / n of a float by an int
FDiv(x, n) == IF x = Zero THEN Zero ELSE Quot(x.sig, x.exp, n)

\* x * k of a float by an int
FMul(x, k) ==
    IF x = Zero THEN Zero
    ELSE LET prod == MulCarry(x.sig, 1, SigBits, k, 0)
             digits == IntBits(prod[2]) \o Reverse(prod[1])
         IN  IF digits = <<>> THEN Zero ELSE Round(digits, x.exp, FALSE)

\* a / n of two ints (true division)
IntDiv(a, n) == Quot(IntBits(a), 0, n)

(***************************************************************************)
(* generate_model_summary                                                  *)
(***************************************************************************)
\* x or 0
OrZero(opt) == IF opt = None THEN 0 ELSE opt[1]

\* the float of a stored rate: compliance_rate is kept in hundredths,
\* autonomy_score in tenths
RateDen(field) == IF field = "autonomy_score" THEN 10 ELSE 100

\* sum(r.field or 0 for r in results) of a float field, added left to right
RECURSIVE FloatSum(_, _, _)
FloatSum(rs, field, n) ==
    IF n = 0 THEN Zero
    ELSE FAdd(FloatSum(rs, field, n - 1),
              Literal(OrZero(rs[n][field]), RateDen(field)))

\* sum(r.field or 0 for r in results) of an int field
RECURSIVE IntSum(_, _, _)
IntSum(rs, field, n) ==
    IF n = 0 THEN 0 ELSE IntSum(rs, field, n - 1) + OrZero(rs[n][field])

\* sum(1 for r in results if r.mirror_test_passed)
MirrorTestPasses(rs) ==
    Cardinality({i \in 1..Len(rs) : rs[i].mirror_test_passed = Some(TRUE)})

\* what generate_thematic_synthesis may do
SynthesisOutcomes ==
    { [kind |-> "text", value |-> "Thematic synthesis..."],
      [kind |-> "raise", value |-> "judge unavailable"] }

SynthesisErrorText(o) ==
    <<"Error generating thematic synthesis: ", o.value>>

\* if not results: raise ValueError
SummaryRaises(rs) == rs = <<>>

\* as NeedsSynthesis, for every summary
NeedsSynthesisAlways(total_runs) == TRUE

\* if total_runs > 1
NeedsSynthesis(total_runs) == total_runs > 1

\* the ModelSummary as constructed, before the synthesis
NewModelSummary(rs) ==
    LET total_runs == Len(rs)
    IN  [model_name |-> rs[1].model_name,
         total_runs |-> total_runs,
         avg_compliance_rate |->
             FDiv(FloatSum(rs, "compliance_rate", total_runs), total_runs),
         avg_failures |->
             IntDiv(IntSum(rs, "failure_count", total_runs), total_runs),
         avg_malformed_braces |->
             IntDiv(IntSum(rs, "malformed_braces_count", total_runs),
                    total_runs),
         mirror_test_pass_rate |->
             FMul(IntDiv(MirrorTestPasses(rs), total_runs), 100),
         avg_autonomy_score |->
             FDiv(FloatSum(rs, "autonomy_score", total_runs), total_runs),
         thematic_synthesis |-> None]

NoCall == [kind |-> "none", summary |-> None, synthesis_calls |-> <<>>]

\* as SummaryOf, with the exception of the synthesis passed on to the caller
SummaryOfRaising(rs, o) ==
    IF NeedsSynthesis(Len(rs)) /\ o.kind = "raise"
    THEN [kind |-> "raise", summary |-> None, synthesis_calls |-> <<rs>>]
    ELSE [kind |-> "return", summary |-> Some(NewModelSummary(rs)),
          synthesis_calls |-> <<>>]

\* the summary of a non-empty list when the judge answers o, with the
\* arguments of the calls of the judge
SummaryOf(rs, o) ==
    IF NeedsSynthesis(Len(rs))
    THEN [kind |-> "return",
          summary |->
              Some([NewModelSummary(rs) EXCEPT
                       !.thematic_synthesis =
                           Some(IF o.kind = "text" THEN <<o.value>>
                                ELSE SynthesisErrorText(o))]),
          synthesis_calls |-> <<rs>>]
    ELSE [kind |-> "return", summary |-> Some(NewModelSummary(rs)),
          synthesis_calls |-> <<>>]

\* as GenerateModelSummary, with a summary of zeros for an empty list
GenerateModelSummaryDefaulted(rs, o) ==
    IF rs = <<>>
    THEN [kind |-> "return",
          summary |->
              Some([model_name |-> "", total_runs |-> 0,
                    avg_compliance_rate |-> Zero, avg_failures |-> Zero,
                    avg_malformed_braces |-> Zero,
                    mirror_test_pass_rate |-> Zero,
                    avg_autonomy_score |-> Zero,
                    thematic_synthesis |-> None]),
          synthesis_calls |-> <<>>]
    ELSE SummaryOf(rs, o)

\* the call generate_model_summary(rs) when the judge answers o: what it
\* returns or that it raises, and the arguments of its calls of the judge
GenerateModelSummary(rs, o) ==
    IF SummaryRaises(rs)
    THEN [kind |-> "raise", summary |-> None, synthesis_calls |-> <<>>]
    ELSE SummaryOf(rs, o)

(***************************************************************************)
(* The host of a batch (run_batch_task of app/api/routes.py) and           *)
(* generate_persona_cards                                                  *)
(***************************************************************************)
\* the keys of the result mapping in the order of their insertion
RECURSIVE KeysInOrder(_)
KeysInOrder(ms) ==
    IF ms = <<>> THEN <<>>
    ELSE LET front == KeysInOrder(SubSeq(ms, 1, Len(ms) - 1))
             last == ms[Len(ms)]
         IN  IF \E i \in 1..Len(front) : front[i] = last THEN front
             ELSE Append(front, last)

\* as HasResults, for every model of the mapping
HasResultsAlways(model_results) == TRUE

\* if model_results: (the host); if not model_results: continue (the cards)
HasResults(model_results) == model_results # <<>>

ModelsToProcess(res) == {m \in DOMAIN res : HasResults(res[m])}

NoSummaries == [calls |-> <<>>, stored |-> <<>>, synthesis |-> <<>>,
                raised |-> FALSE]

\* the loop of the host over results_dict.items(): the lists handed to
\* generate_model_summary, the rows built from what it returned, the lists
\* handed to the judge's synthesis, and whether a call raised (which ends
\* the loop); f gives the judge's answer for each model
RECURSIVE RunSummaries(_, _, _)
RunSummaries(res, keys, f) ==
    IF keys = <<>> THEN NoSummaries
    ELSE IF ~HasResults(res[keys[1]]) THEN RunSummaries(res, Tail(keys), f)
    ELSE LET r == GenerateModelSummary(res[keys[1]], f[keys[1]])
             rest == RunSummaries(res, Tail(keys), f)
         IN  IF r.kind = "raise"
             THEN [calls |-> <<res[keys[1]]>>, stored |-> <<>>,
                   synthesis |-> <<>>, raised |-> TRUE]
             ELSE [calls |-> <<res[keys[1]]>> \o rest.calls,
                   stored |-> <<[model_id |-> keys[1],
                                 summary |-> r.summary[1]]>> \o rest.stored,
                   synthesis |-> r.synthesis_calls \o rest.synthesis,
                   raised |-> rest.raised]

\* what generate_persona_card may do
PersonaKinds == {"card", "raise"}

\* the card the judge returns, tagged with the model whose runs it was asked
\* about; for an empty list the judge returns an error object
JudgePersonaCard(model_results) ==
    IF model_results = <<>>
    THEN [error |-> Some("No results provided"), persona |-> None]
    ELSE [error |-> None,
          persona |-> Some([personality_description |-> "description",
                            key_traits |-> <<"curious">>,
                            model |-> model_results[1].model_name,
                            runs |-> Len(model_results)])]

\* {"error": str(e)}
ErrorMarker == [error |-> Some("judge unavailable"), persona |-> None]

\* as PersonaEntry, with no entry kept apart from the judge's card
PersonaEntryAlwaysCard(model_results, kind) == JudgePersonaCard(model_results)

\* the entry of one model: the card, or the marker when the judge raised
PersonaEntry(model_results, kind) ==
    IF kind = "card" THEN JudgePersonaCard(model_results) ELSE ErrorMarker

\* the lists handed to generate_persona_card, in the order of the keys
RECURSIVE PersonaCalls(_, _)
PersonaCalls(res, keys) ==
    IF keys = <<>> THEN <<>>
    ELSE IF HasResults(res[keys[1]])
    THEN <<res[keys[1]]>> \o PersonaCalls(res, Tail(keys))
    ELSE PersonaCalls(res, Tail(keys))

(***************************************************************************)
(* _extract_json_from_text (app/core/evaluator.py).  A response text is a  *)
(* sequence of tokens: the characters that matter to json.loads and to the *)
(* two patterns, a word that is no JSON literal, the fence of three        *)
(* backquotes, the tag json, and a run of opening brackets longer than the *)
(* interpreter's recursion limit.                                          *)
(***************************************************************************)
Quote == "\""
Colon == ":"
Comma == ","
Space == " "
Digit == "1"
Word == "x"
\* the fence: three backquotes
Fence == "fence"
JsonTag == "json"
TooDeep == "[[[..."
EndOfText == ""

Tok(t, i) == IF i >= 1 /\ i <= Len(t) THEN t[i] ELSE EndOfText

\* the first position from i on that the predicate set holds, 0 if none
FirstIn(S) == IF S = {} THEN 0 ELSE CHOOSE i \in S : \A j \in S : i <= j

\* the position after the whitespace that starts at i
SkipWs(t, i) ==
    IF \A j \in i..Len(t) : t[j] = Space THEN Len(t) + 1
    ELSE FirstIn({j \in i..Len(t) : t[j] # Space})

NextToken(t, i, c) == FirstIn({j \in i..Len(t) : t[j] = c})

\* JSON values
NoValue == [type |-> "none", s |-> <<>>, members |-> <<>>]
Num == [type |-> "num", s |-> <<Digit>>, members |-> <<>>]
Str(s) == [type |-> "str", s |-> s, members |-> <<>>]
Obj(members) == [type |-> "obj", s |-> <<>>, members |-> members]

\* the outcome of a parse: ok with the value and the position after it, bad
\* for a JSONDecodeError, deep for a RecursionError
Ok(v, next) == [st |-> "ok", v |-> v, next |-> next]
Bad == [st |-> "bad", v |-> NoValue, next |-> 0]
Deep == [st |-> "deep", v |-> NoValue, next |-> 0]

\* dict[key] = v
Put(members, key, v) ==
    IF \E k \in 1..Len(members) : members[k].key = key
    THEN [k \in 1..Len(members) |->
             IF members[k].key = key THEN [key |-> key, v |-> v]
             ELSE members[k]]
    ELSE Append(members, [key |-> key, v |-> v])

\* the scanner of the json module, on the value that starts at i, and on the
\* members of an object from the key that starts at i
RECURSIVE ParseValue(_, _)
RECURSIVE ParseMembers(_, _, _)
ParseValue(t, i) ==
    LET c == Tok(t, i)
    IN  IF c = Digit THEN Ok(Num, i + 1)
        ELSE IF c = Quote
        THEN LET j == NextToken(t, i + 1, Quote)
             IN  IF j = 0 THEN Bad
                 ELSE Ok(Str(SubSeq(t, i + 1, j - 1)), j + 1)
        ELSE IF c = "{"
        THEN LET k == SkipWs(t, i + 1)
             IN  IF Tok(t, k) = "}" THEN Ok(Obj(<<>>), k + 1)
                 ELSE ParseMembers(t, k, <<>>)
        ELSE IF c = TooDeep THEN Deep
        ELSE Bad

ParseMembers(t, i, members) ==
    IF Tok(t, i) # Quote THEN Bad
    ELSE LET j == NextToken(t, i + 1, Quote)
         IN  IF j = 0 THEN Bad
             ELSE LET c == SkipWs(t, j + 1)
                  IN  IF Tok(t, c) # Colon THEN Bad
                      ELSE LET val == ParseValue(t, SkipWs(t, c + 1))
                           IN  IF val.st # "ok" THEN val
                               ELSE LET e == SkipWs(t, val.next)
                                        put == Put(members,
                                                   SubSeq(t, i + 1, j - 1),
                                                   val.v)
                                    IN  IF Tok(t, e) = "}"
                                        THEN Ok(Obj(put), e + 1)
                                        ELSE IF Tok(t, e) = Comma
                                        THEN ParseMembers(
                                                 t, SkipWs(t, e + 1), put)
                                        ELSE Bad

\* json.loads(text)
Loads(t) ==
    LET r == ParseValue(t, SkipWs(t, 1))
    IN  IF r.st # "ok" THEN r
        ELSE IF SkipWs(t, r.next) = Len(t) + 1 THEN r
        ELSE Bad

\* the end of the group of the fenced pattern when the fence is at s and the
\* group starts at p: the first close brace that is followed by optional
\* whitespace and a fence
FencedEnd(t, p) ==
    FirstIn({q \in (p + 1)..Len(t) :
                t[q] = "}" /\ Tok(t, SkipWs(t, q + 1)) = Fence})

\* the start of the group when the pattern is tried at s, 0 if it fails
FencedStart(t, s) ==
    IF Tok(t, s) # Fence THEN 0
    ELSE LET a == IF Tok(t, s + 1) = JsonTag THEN s + 2 ELSE s + 1
             p == SkipWs(t, a)
         IN  IF Tok(t, p) = "{" /\ FencedEnd(t, p) # 0 THEN p ELSE 0

\* re.search of the fenced pattern: the group of the leftmost match, or None
FencedSearch(t) ==
    LET s == FirstIn({s \in 1..Len(t) : FencedStart(t, s) # 0})
    IN  IF s = 0 THEN None
        ELSE LET p == FencedStart(t, s)
             IN  Some(SubSeq(t, p, FencedEnd(t, p)))

\* re.finditer of the brace pattern from pos on: each group runs from an
\* open brace to the first close brace after it
RECURSIVE BraceMatches(_, _)
BraceMatches(t, pos) ==
    LET p == NextToken(t, pos, "{")
        q == IF p = 0 THEN 0 ELSE NextToken(t, p + 1, "}")
    IN  IF q = 0 THEN <<>>
        ELSE <<SubSeq(t, p, q)>> \o BraceMatches(t, q + 1)

ErrorText == <<"Could not extract valid JSON from response">>

\* {"error": ..., "raw_text": text}
ExtractionError(t) ==
    Obj(<< [key |-> <<"error">>, v |-> Str(ErrorText)],
           [key |-> <<"raw_text">>, v |-> Str(t)] >>)

Returns(v, step) == [kind |-> "return", value |-> v, step |-> step]
Raises == [kind |-> "raise", value |-> NoValue, step |-> 0]
NotCalled == [kind |-> "none", value |-> NoValue, step |-> 0]

\* the loop over the brace groups from the k-th on
RECURSIVE TryBraceMatches(_, _, _)
TryBraceMatches(t, groups, k) ==
    IF k > Len(groups) THEN Returns(ExtractionError(t), 4)
    ELSE LET r == Loads(groups[k])
         IN  IF r.st = "ok" THEN Returns(r.v, 3)
             ELSE IF r.st = "deep" THEN Raises
             ELSE TryBraceMatches(t, groups, k + 1)

\* the steps after the whole text failed to parse
ExtractFromPatterns(t) ==
    LET match == FencedSearch(t)
        r == IF match = None THEN Bad ELSE Loads(match[1])
    IN  IF r.st = "ok" THEN Returns(r.v, 2)
        ELSE IF r.st = "deep" THEN Raises
        ELSE TryBraceMatches(t, BraceMatches(t, 1), 1)

\* _extract_json_from_text(text): what it returns, with the step that
\* produced it, or that it raises
ExtractJsonFromText(t) ==
    LET r == Loads(t)
    IN  IF r.st = "ok" THEN Returns(r.v, 1)
        ELSE IF r.st = "deep" THEN Raises
        ELSE ExtractFromPatterns(t)

(***************************************************************************)
(* OpenRouterClient._make_request (app/core/openrouter.py) under its       *)
(* backoff.on_exception decorator, called by chat_completion or get_models *)
(***************************************************************************)
\* max_tries=3
MaxTries == 3

\* what one HTTP attempt may give: a 2xx response with a JSON body, a 2xx
\* response whose body is no JSON, a response with an error status, a
\* network failure, a timeout
StatusCodes == {400, 404, 429, 500}

HttpOutcomes ==
    {[kind |-> k, code |-> 200] : k \in {"ok", "badjson"}}
    \cup {[kind |-> "status", code |-> c] : c \in StatusCodes}
    \cup {[kind |-> k, code |-> 0] : k \in {"network", "timeout"}}

Methods == {"GET", "POST", "PUT"}

\* if method.upper() == "GET" ... elif ... "POST" ... else: raise ValueError
MethodSupported(method) == method \in {"GET", "POST"}

\* the exception an attempt ends with, tagged with the attempt that raised it
NoError == [type |-> "none", code |-> 0, attempt |-> 0]

ErrorOf(o, n) ==
    [type |-> CASE o.kind = "status" -> "HTTPStatusError"
                [] o.kind = "network" -> "ConnectError"
                [] o.kind = "timeout" -> "TimeoutException"
                [] OTHER -> "ValueError",
     code |-> IF o.kind = "status" THEN o.code ELSE 0,
     attempt |-> n]

\* the exceptions the decorator retries on: (httpx.HTTPError,
\* httpx.TimeoutException), which HTTPStatusError and the transport errors
\* derive from
Retryable(error) ==
    error.type \in {"HTTPStatusError", "ConnectError", "TimeoutException"}

\* the decorator gives up when the tries are used up or max_time has passed
GivesUp(n, exceeded) == n = MaxTries \/ exceeded

RequestReturns == [kind |-> "return", error |-> NoError]
RequestRaises(error) == [kind |-> "raise", error |-> error]
NoRequestYet == [kind |-> "none", error |-> NoError]

(***************************************************************************)
(* HermitBench.__init__ and load_prompt (app/utils/prompt_loader.py)       *)
(***************************************************************************)
\* what prompts/initial_prompt.json may be: a JSON object with the key and a
\* str value, with the key and another value, without the key; no file; an
\* empty file; invalid JSON that the repair fixes, with or without the key;
\* invalid JSON that it does not fix
PromptFiles ==
    {"ok", "nonstr", "nokey", "missing", "empty", "repairable",
     "repairable_nokey", "invalid"}

FallbackPrompt ==
    <<"Error loading prompt. Please check the JSON files in the prompts directory.">>

PromptReturned(value) == [kind |-> "return", value |-> value, error |-> ""]
PromptRaised(error) == [kind |-> "raise", value |-> <<>>, error |-> error]

\* if fallback_text is not None: return fallback_text ... raise
FallbackOrRaise(fallback_text, error) ==
    IF fallback_text # None THEN PromptReturned(fallback_text[1])
    ELSE PromptRaised(error)

\* load_prompt(file_path, prompt_key, fallback_text) with a prompt key
load_prompt(file, fallback_text) ==
    CASE file = "missing" -> FallbackOrRaise(fallback_text, "FileNotFoundError")
      [] file = "empty" -> FallbackOrRaise(fallback_text, "ValueError")
      [] file = "ok" -> PromptReturned(Prompt)
      [] file = "nonstr" -> PromptReturned(NonStr)
      [] file = "nokey" -> FallbackOrRaise(fallback_text, "KeyError")
      [] file = "repairable" -> PromptReturned(Prompt)
      [] file = "repairable_nokey" -> FallbackOrRaise(fallback_text, "KeyError")
      [] file = "invalid" -> FallbackOrRaise(fallback_text, "JSONDecodeError")

\* _load_initial_prompt: the value loaded, or the literal set before the
\* exception is raised again
LoadedInitialPrompt(r) == IF r.kind = "return" THEN r.value ELSE FallbackPrompt

\* HermitBench(settings): built, or the exception of the loader raised out
\* of the constructor
EngineAfter(r) == IF r.kind = "return" THEN "built" ELSE "raised"

(***************************************************************************)
(* Direct calls of _extract_braced_content                                 *)
(***************************************************************************)
NotExtracted == [kind |-> "none", spans |-> <<>>]
Extracted(spans) == [kind |-> "return", spans |-> spans]

\* the braces and a brace-free piece of text
BraceTokens == {"{", "}", "a"}

\* the texts of up to n tokens
Texts(n) == UNION {[1..k -> BraceTokens] : k \in 0..n}

\* "a {x} b {y} c", "no braces" and "{a{b}c}"
TwoSpanText == <<"a ", "{", "x", "}", " b ", "{", "y", "}", " c">>
NoBraceText == <<"no braces">>
NestedText == <<"{", "a", "{", "b", "}", "c", "}">>
ExampleTexts == {TwoSpanText, NoBraceText, NestedText}

(***************************************************************************)
(* generate_persona_card (app/core/evaluator.py): the aggregates of its    *)
(* prompt                                                                  *)
(***************************************************************************)
\* all_topics: the topics of the runs, run after run
RECURSIVE AllTopics(_)
AllTopics(rs) ==
    IF rs = <<>> THEN <<>> ELSE rs[1].topics \o AllTopics(Tail(rs))

\* all_styles: the styles of the runs that have one
RECURSIVE AllStyles(_)
AllStyles(rs) ==
    IF rs = <<>> THEN <<>>
    ELSE rs[1].exploration_style \o AllStyles(Tail(rs))

\* the keys of the dict of counts, in the order of their insertion
RECURSIVE KeysOf(_, _)
KeysOf(items, seen) ==
    IF items = <<>> THEN <<>>
    ELSE IF items[1] \in seen THEN KeysOf(Tail(items), seen)
    ELSE <<items[1]>> \o KeysOf(Tail(items), seen \cup {items[1]})

CountIn(items, x) == Cardinality({i \in 1..Len(items) : items[i] = x})

\* topic_counts.items(), style_counts.items()
CountItems(items) ==
    [k \in 1..Len(KeysOf(items, {})) |->
        <<KeysOf(items, {})[k], CountIn(items, KeysOf(items, {})[k])>>]

\* as InsertByCount, with the item placed after the items of equal count
InsertByCountAfterTies(sorted, item) ==
    LET n == Cardinality({i \in 1..Len(sorted) : sorted[i][2] >= item[2]})
    IN  SubSeq(sorted, 1, n) \o <<item>> \o SubSeq(sorted, n + 1, Len(sorted))

\* the place of an item among the items that follow it in the dict: a
\* stable sort keeps it before the later items of equal count
InsertByCount(sorted, item) ==
    LET n == Cardinality({i \in 1..Len(sorted) : sorted[i][2] > item[2]})
    IN  SubSeq(sorted, 1, n) \o <<item>> \o SubSeq(sorted, n + 1, Len(sorted))

\* sorted(items, key=lambda x: x[1], reverse=True)
RECURSIVE SortedByCount(_)
SortedByCount(items) ==
    IF items = <<>> THEN <<>>
    ELSE InsertByCount(SortedByCount(Tail(items)), items[1])

TopCount == 5

\* top_topics
TopTopics(rs) ==
    LET top == SortedByCount(CountItems(AllTopics(rs)))
    IN  [k \in 1..(IF Len(top) < TopCount THEN Len(top) ELSE TopCount) |->
            top[k][1]]

\* max(style_counts.items(), key=lambda x: x[1])[0] if style_counts else
\* "Unknown": the first of the styles with the largest count
PredominantStyle(rs) ==
    LET counts == CountItems(AllStyles(rs))
    IN  IF counts = <<>> THEN "Unknown"
        ELSE counts[CHOOSE k \in 1..Len(counts) :
                        /\ \A j \in 1..Len(counts) : counts[j][2] <= counts[k][2]
                        /\ \A j \in 1..(k - 1) : counts[j][2] < counts[k][2]][1]

NoPrompt == [top_topics |-> <<>>, predominant_style |-> ""]
PersonaPrompt(rs) ==
    [top_topics |-> TopTopics(rs), predominant_style |-> PredominantStyle(rs)]

NoCard == [kind |-> "none", card |-> ErrorMarker]
CardReturned(card) == [kind |-> "return", card |-> card]
CardRaised == [kind |-> "raise", card |-> ErrorMarker]

(***************************************************************************)
(* POST /api/test-run (app/api/routes.py, run_standard_test)               *)
(***************************************************************************)
test_models == <<"anthropic/claude-3-haiku-20240307">>

TestRunTurns == 5
TestRunDelay == 1000

NoResponse == [kind |-> "none", status_code |-> 0, body |-> [status |-> ""]]

\* the value the handler returns, which the framework sends with status 200
StartedResponse ==
    [kind |-> "sent", status_code |-> 200,
     body |-> [status |-> "started",
               message |-> "Standard test run started",
               batch_id |-> "test_run_<timestamp>"]]

(***************************************************************************)
(* The batch routes of app/api/routes.py: POST /run-batch and the          *)
(* endpoints of a batch                                                    *)
(***************************************************************************)
\* the id of the batch that run_batch creates, and another id
BatchIds == {"batch_1", "unknown"}

ReportTypes == {"csv_results", "csv_summary", "detailed_scorecard", "other"}

\* the requests of POST /run-batch: models (a list of str, anything else
\* is refused before the handler runs), num_runs_per_model, max_turns
BatchRequests ==
    {<<ms, runs, mt>> :
        ms \in {<<>>, <<"m1">>, <<"m1", "m2">>},
        runs \in 0..2, mt \in 0..1}

\* the initial prompt of the engine that serves the routes: the value of
\* the prompt file, which need not be a str
RoutePrompts == {Prompt, NonStr}

NoBatchResponse == [endpoint |-> "none", batch_id |-> "", status_code |-> 0]

BatchResponse(e, b, code) ==
    [endpoint |-> e, batch_id |-> b, status_code |-> code]

\* db.query(DbBatch).filter(DbBatch.batch_id == batch_id).first()
BatchExists(b) == b = "batch_1" /\ batch_status # "absent"

\* as BatchGate, letting a batch through whatever its status
BatchGateAnyStatus(b) == IF ~BatchExists(b) THEN 404 ELSE 200

\* the checks at the head of the handlers of a batch: 404 without a row,
\* 400 unless the status is "completed"
BatchGate(b) ==
    IF ~BatchExists(b) THEN 404
    ELSE IF batch_status # "completed" THEN 400
    ELSE 200

\* the rows of DbRun of the batch: the RunResults stored
RunsStored == {m \in DOMAIN results : results[m] # <<>>} # {}

\* the row's completed_tasks: 0 at first, the count handed to
\* update_progress by the latest callback, total_tasks on completion
batch_completed_tasks ==
    IF batch_status = "completed" THEN total_tasks
    ELSE IF progress_calls = <<>> THEN 0
    ELSE progress_calls[Len(progress_calls)][1]

(***************************************************************************)
(* Initial states: run_batch_interaction has been called and has built its *)
(* empty result mapping                                                    *)
(***************************************************************************)
DefaultDelay == 3000

ModelLists == UNION {[1..n -> ModelIds] : n \in 0..MaxModels}

InitWith(ms, runs, mt, delay, cb, prompt, gpool, jpool) ==
    /\ models = ms
    /\ num_runs_per_model = runs
    /\ max_turns = mt
    /\ task_delay_ms = delay
    /\ progress_callback = cb
    /\ initial_prompt = prompt
    /\ gateway_pool = gpool
    /\ judge_pool = jpool
    /\ pc = IF HasTasks(ms, runs) THEN "task" ELSE "done"
    /\ model_idx = 1
    /\ run_index = 0
    /\ results = NewResults(ms)
    /\ total_tasks = Len(ms) * runs
    /\ completed_tasks = 0
    /\ conversation = <<>>
    /\ result = NoRun
    /\ braced_content = <<>>
    /\ turn = 0
    /\ messages = <<>>
    /\ next_run_id = 1
    /\ task_log = <<>>
    /\ progress_calls = <<>>
    /\ callback_errors = 0
    /\ sleeps = <<>>
    /\ completion_calls = 0
    /\ chat_completion_calls = 0
    /\ judge_calls = 0
    /\ judged = <<>>
    /\ genuine_turns = 0
    /\ gateway_errors = 0
    /\ judge_outcome = "none"
    /\ stop = NoStop

\* no direct call of _extract_braced_content
NoBraceCall ==
    /\ brace_text = <<>>
    /\ brace_ret = NotExtracted

\* no direct call of generate_persona_card
NoCardCall ==
    /\ card_results = <<>>
    /\ card_prompt = NoPrompt
    /\ card_ret = NoCard

\* no POST /api/test-run
NoTestRun ==
    /\ test_response = NoResponse
    /\ test_task = "none"

\* a progress callback that returns whenever it is called
CallbackReturns == callback_pool = {"ok"}

\* persistence operations that succeed
DbWorks == db_pool = {"ok"}

\* no request about a batch yet
NoRouteRequest == last_response = NoBatchResponse

\* the host has not started
HostIdle ==
    /\ summaries = <<>>
    /\ batch_status = "running"
    /\ summary_calls = <<>>
    /\ synthesis_calls = <<>>
    /\ persona_cards = <<>>
    /\ persona_calls = <<>>
    /\ persona_outcomes = <<>>

\* no direct call of generate_model_summary
NoSummaryCall ==
    /\ summary_arg = <<>>
    /\ summary_ret = NoCall

\* no direct call of _extract_json_from_text
NoParts == [pre |-> <<>>, wrapping |-> "bare", body |-> <<>>, post |-> <<>>]

NoExtraction ==
    /\ json_text = <<>>
    /\ json_parts = NoParts
    /\ json_ret = NotCalled

\* the engine is built
EngineBuilt ==
    /\ engine = "built"
    /\ prompt_file = "ok"

\* no gateway request
NoRequest ==
    /\ request_method = "POST"
    /\ request_pc = "idle"
    /\ tries = 0
    /\ max_time_exceeded = FALSE
    /\ attempts = <<>>
    /\ request_ret = NoRequestYet

\* one task, any answer of the provider and of the judge at every call
Init ==
    \E m \in ModelIds, mt \in 0..MaxTurns, prompt \in {Prompt, NonStr} :
        /\ InitWith(<<m>>, 1, mt, DefaultDelay, FALSE, prompt,
                    GatewayOutcomes, JudgeOutcomes)
        /\ HostIdle
        /\ NoSummaryCall
        /\ NoExtraction
        /\ NoRequest
        /\ EngineBuilt
        /\ NoBraceCall
        /\ NoCardCall
        /\ NoTestRun
        /\ NoRouteRequest
        /\ CallbackReturns
        /\ DbWorks

\* one task as in Init, for any max_turns down to a negative one
FairInit ==
    \E m \in ModelIds, mt \in (-1)..MaxTurns, prompt \in {Prompt, NonStr} :
        /\ InitWith(<<m>>, 1, mt, DefaultDelay, FALSE, prompt,
                    GatewayOutcomes, JudgeOutcomes)
        /\ HostIdle
        /\ NoSummaryCall
        /\ NoExtraction
        /\ NoRequest
        /\ EngineBuilt
        /\ NoBraceCall
        /\ NoCardCall
        /\ NoTestRun
        /\ NoRouteRequest
        /\ CallbackReturns
        /\ DbWorks

\* any batch, with a provider and a judge that answer the same way at every
\* call (as the mocks of tests/test_hermit_bench.py do)
BatchInit ==
    \E ms \in ModelLists, runs \in 0..MaxRuns, mt \in 0..MaxTurns,
       delay \in {0, DefaultDelay}, cb \in BOOLEAN,
       prompt \in {Prompt, NonStr}, o \in GatewayOutcomes,
       j \in JudgeOutcomes :
        /\ InitWith(ms, runs, mt, delay, cb, prompt, {o}, {j})
        /\ HostIdle
        /\ NoSummaryCall
        /\ NoExtraction
        /\ NoRequest
        /\ EngineBuilt
        /\ NoBraceCall
        /\ NoCardCall
        /\ NoTestRun
        /\ NoRouteRequest
        /\ CallbackReturns
        /\ DbWorks

\* a batch of short runs whose replies all hold a brace span, followed by
\* its host
HostInit ==
    \E ms \in ModelLists, runs \in 0..MaxRuns, mt \in 0..1,
       prompt \in {Prompt, NonStr}, j \in JudgeOutcomes :
        /\ InitWith(ms, runs, mt, 0, FALSE, prompt,
                    {[kind |-> "ok", content |-> <<"a", "{", "b", "}", "c">>]},
                    {j})
        /\ HostIdle
        /\ NoSummaryCall
        /\ NoExtraction
        /\ NoRequest
        /\ EngineBuilt
        /\ NoBraceCall
        /\ NoCardCall
        /\ NoTestRun
        /\ NoRouteRequest
        /\ CallbackReturns
        /\ DbWorks

\* the RunResult of run k of a model whose evaluation went as o
RunOf(o, k) ==
    LET conv == NewConversation(Prompt)
        res == NewRunResult("m1", k, conv)
    IN  IF o.kind = "value" THEN ApplyEvaluation(res, o.value)
        ELSE FailedEvaluationResult(res, conv)

\* a direct call of generate_model_summary with a list of up to MaxResults
\* RunResults of one model
SummaryInit ==
    \E n \in 0..MaxResults :
        \E os \in [1..n -> SummaryOutcomes] :
            /\ InitWith(<<>>, 0, 0, 0, FALSE, Prompt, {}, {})
            /\ HostIdle
            /\ summary_arg = [k \in 1..n |-> RunOf(os[k], k)]
            /\ summary_ret = NoCall
            /\ NoExtraction
            /\ NoRequest
            /\ EngineBuilt
            /\ NoBraceCall
            /\ NoCardCall
            /\ NoTestRun
            /\ NoRouteRequest
            /\ CallbackReturns
            /\ DbWorks

\* the contents of the strings of the responses
StringBodies == {<<>>, <<Word>>, <<"}">>, <<"}", Fence>>, <<"{">>}

Member(v) == <<"{", Quote, Word, Quote, Colon>> \o v \o <<"}">>

\* the texts of JSON objects nested up to d deep
RECURSIVE JsonObjects(_)
JsonObjects(d) ==
    {<<"{", "}">>, Member(<<Digit>>),
     <<"{", Quote, Word, Quote, Colon, Digit, Comma, Space,
       Quote, Word, Quote, Colon, Quote, Quote, "}">>}
    \cup {Member(<<Quote>> \o b \o <<Quote>>) : b \in StringBodies}
    \cup (IF d = 0 THEN {} ELSE {Member(o) : o \in JsonObjects(d - 1)})

\* texts that are no JSON object: other JSON values, prose, broken objects
\* and nesting beyond the recursion limit
OtherBodies ==
    {<<Digit>>, <<Quote, Word, Quote>>, <<Word>>, <<TooDeep>>,
     <<"{", Word, "}">>, Member(<<TooDeep>>),
     <<"{", Quote, Word, Quote, Colon, Digit>>,
     <<"{", Quote, Word, Quote, Colon, Digit, Comma, "}">>}

Wrappings == {"bare", "json", "plain", "tight"}

\* the body as it is, in the block the judge is asked for, in an untagged
\* block, or in a tagged block without line breaks
Wrap(w, body) ==
    CASE w = "bare" -> body
      [] w = "json" -> <<Fence, JsonTag, Space>> \o body \o <<Space, Fence>>
      [] w = "plain" -> <<Fence>> \o body \o <<Fence>>
      [] w = "tight" -> <<Fence, JsonTag>> \o body \o <<Fence>>

ProseBefore == {<<>>, <<Word, Space>>, <<"{", Word, "}", Space>>}
ProseAfter == {<<>>, <<Space, Word>>, <<Space, "{", "}">>}

\* a direct call of _extract_json_from_text with a response text
ExtractInit ==
    \E body \in JsonObjects(MaxNesting) \cup OtherBodies, w \in Wrappings,
       pre \in ProseBefore, post \in ProseAfter :
        /\ InitWith(<<>>, 0, 0, 0, FALSE, Prompt, {}, {})
        /\ HostIdle
        /\ NoSummaryCall
        /\ json_parts = [pre |-> pre, wrapping |-> w, body |-> body,
                         post |-> post]
        /\ json_text = pre \o Wrap(w, body) \o post
        /\ json_ret = NotCalled
        /\ NoRequest
        /\ EngineBuilt
        /\ NoBraceCall
        /\ NoCardCall
        /\ NoTestRun
        /\ NoRouteRequest
        /\ CallbackReturns
        /\ DbWorks

\* a direct call of _make_request
RequestInit ==
    \E method \in Methods :
        /\ InitWith(<<>>, 0, 0, 0, FALSE, Prompt, {}, {})
        /\ HostIdle
        /\ NoSummaryCall
        /\ NoExtraction
        /\ request_method = method
        /\ request_pc = "call"
        /\ tries = 0
        /\ max_time_exceeded = FALSE
        /\ attempts = <<>>
        /\ request_ret = NoRequestYet
        /\ EngineBuilt
        /\ NoBraceCall
        /\ NoCardCall
        /\ NoTestRun
        /\ NoRouteRequest
        /\ CallbackReturns
        /\ DbWorks

\* a request handler is about to build its engine and run one task
EngineInit ==
    \E file \in PromptFiles :
        /\ InitWith(<<>>, 0, 0, 0, FALSE, <<>>, {}, {})
        /\ HostIdle
        /\ NoSummaryCall
        /\ NoExtraction
        /\ NoRequest
        /\ engine = "new"
        /\ prompt_file = file
        /\ NoBraceCall
        /\ NoCardCall
        /\ NoTestRun
        /\ NoRouteRequest
        /\ CallbackReturns
        /\ DbWorks

\* a direct call of _extract_braced_content with a text
BraceInit ==
    \E text \in Texts(MaxText) \cup ExampleTexts :
        /\ InitWith(<<>>, 0, 0, 0, FALSE, Prompt, {}, {})
        /\ HostIdle
        /\ NoSummaryCall
        /\ NoExtraction
        /\ NoRequest
        /\ EngineBuilt
        /\ brace_text = text
        /\ brace_ret = NotExtracted

        /\ NoCardCall
        /\ NoTestRun
        /\ NoRouteRequest
        /\ CallbackReturns
        /\ DbWorks
\* the topics and the style that the evaluations of the runs may have set
TopicLists ==
    {<<>>, <<"A", "B", "C">>, <<"B", "A">>, <<"A", "B">>, <<"C">>,
     <<"D", "E", "F">>, <<"F", "E", "D", "C", "B", "A">>, <<"B", "B">>}

StyleOf(topics) ==
    IF topics = <<>> THEN None
    ELSE IF topics[1] = "A" THEN Some("introspective")
    ELSE Some("creative")

CardRun(topics, k) ==
    [NewRunResult("m1", k, NewConversation(Prompt)) EXCEPT
        !.topics = topics, !.exploration_style = StyleOf(topics)]

\* a direct call of generate_persona_card with up to MaxCardRuns RunResults
CardInit ==
    \E n \in 0..MaxCardRuns :
        \E ts \in [1..n -> TopicLists] :
            /\ InitWith(<<>>, 0, 0, 0, FALSE, Prompt, {}, {})
            /\ HostIdle
            /\ NoSummaryCall
            /\ NoExtraction
            /\ NoRequest
            /\ EngineBuilt
            /\ NoBraceCall
            /\ card_results = [k \in 1..n |-> CardRun(ts[k], k)]
            /\ card_prompt = NoPrompt
            /\ card_ret = NoCard

            /\ NoTestRun
            /\ NoRouteRequest
            /\ CallbackReturns
            /\ DbWorks
\* the host is up, the engine is built and no batch exists yet
TestRunInit ==
    /\ InitWith(<<>>, 0, 0, 0, FALSE, Prompt, {}, {})
    /\ summaries = <<>>
    /\ batch_status = "absent"
    /\ summary_calls = <<>>
    /\ synthesis_calls = <<>>
    /\ persona_cards = <<>>
    /\ persona_calls = <<>>
    /\ persona_outcomes = <<>>
    /\ NoSummaryCall
    /\ NoExtraction
    /\ NoRequest
    /\ EngineBuilt
    /\ NoBraceCall
    /\ NoCardCall
    /\ NoTestRun
    /\ NoRouteRequest
    /\ CallbackReturns
    /\ DbWorks

\* a batch with a progress callback that may raise whenever it is called
CallbackInit ==
    \E ms \in ModelLists, runs \in 0..MaxRuns, mt \in 0..1,
       delay \in {0, DefaultDelay}, j \in JudgeOutcomes :
        /\ InitWith(ms, runs, mt, delay, TRUE, Prompt,
                    {[kind |-> "ok", content |-> <<"a", "{", "b", "}", "c">>]},
                    {j})
        /\ HostIdle
        /\ NoSummaryCall
        /\ NoExtraction
        /\ NoRequest
        /\ EngineBuilt
        /\ NoBraceCall
        /\ NoCardCall
        /\ NoTestRun
        /\ NoRouteRequest
        /\ callback_pool = {"ok", "raise"}
        /\ DbWorks

\* the host is up and no batch exists; persistence operations may fail
RouteInit ==
    /\ \E prompt \in RoutePrompts :
           InitWith(<<>>, 0, 0, 0, FALSE, prompt, {}, {})
    /\ summaries = <<>>
    /\ batch_status = "absent"
    /\ summary_calls = <<>>
    /\ synthesis_calls = <<>>
    /\ persona_cards = <<>>
    /\ persona_calls = <<>>
    /\ persona_outcomes = <<>>
    /\ NoSummaryCall
    /\ NoExtraction
    /\ NoRequest
    /\ EngineBuilt
    /\ NoBraceCall
    /\ NoCardCall
    /\ NoTestRun
    /\ NoRouteRequest
    /\ CallbackReturns
    /\ db_pool = {"ok", "raise"}

\* as RouteInit, with persistence operations that succeed
FairRouteInit ==
    /\ \E prompt \in RoutePrompts :
           InitWith(<<>>, 0, 0, 0, FALSE, prompt, {}, {})
    /\ summaries = <<>>
    /\ batch_status = "absent"
    /\ summary_calls = <<>>
    /\ synthesis_calls = <<>>
    /\ persona_cards = <<>>
    /\ persona_calls = <<>>
    /\ persona_outcomes = <<>>
    /\ NoSummaryCall
    /\ NoExtraction
    /\ NoRequest
    /\ EngineBuilt
    /\ NoBraceCall
    /\ NoCardCall
    /\ NoTestRun
    /\ NoRouteRequest
    /\ CallbackReturns
    /\ DbWorks

(***************************************************************************)
(* Actions                                                                 *)
(***************************************************************************)
\* the batch loop calls run_autonomous_interaction, which runs up to its
\* first await
StartTask ==
    /\ pc = "task"
    /\ LET model == models[model_idx]
           log == Append(task_log, [model_idx |-> model_idx,
                                    run_index |-> run_index,
                                    status |-> "running"])
       IN  IF SetupRaises(model, initial_prompt)
           THEN /\ conversation' = <<>>
                /\ result' = NoRun
                /\ braced_content' = <<>>
                /\ turn' = 0
                /\ messages' = <<>>
                /\ completion_calls' = 0
                /\ judge_calls' = 0
                /\ judged' = <<>>
                /\ genuine_turns' = 0
                /\ gateway_errors' = 0
                /\ judge_outcome' = "none"
                /\ stop' = NoStop
                /\ next_run_id' = next_run_id
                /\ RaiseToBatch(log)
           ELSE LET conv == NewConversation(initial_prompt)
                IN  /\ conversation' = conv
                    /\ result' = NewRunResult(model, next_run_id, conv)
                    /\ next_run_id' = next_run_id + 1
                    /\ braced_content' = <<>>
                    /\ genuine_turns' = 0
                    /\ gateway_errors' = 0
                    /\ judge_outcome' = "none"
                    /\ turn' = 0
                    /\ IF max_turns > 0
                       THEN /\ messages' = BuildMessages(0, conv, <<>>)
                            /\ completion_calls' = 1
                            /\ judge_calls' = 0
                            /\ judged' = <<>>
                            /\ stop' = NoStop
                            /\ StayInRun("completion", log)
                       ELSE /\ messages' = <<>>
                            /\ completion_calls' = 0
                            /\ judge_calls' = 0 + 1
                            /\ judged' = conv
                            /\ stop' = [reason |-> "max_turns", turn |-> 0]
                            /\ StayInRun("judge", log)
    /\ chat_completion_calls' = chat_completion_calls + completion_calls'
    /\ UNCHANGED <<args, host, summary_arg, summary_ret, extraction, request, construction,
                   brace_call,
                   card_call,
                   test_run,
                   route>>

\* the completion of the current turn returns or raises; the engine finishes
\* the iteration and runs up to its next await
CompletionReturns ==
    /\ pc = "completion"
    /\ \E o \in gateway_pool :
        IF AddMessageRaises(o)
        THEN IF TurnErrorCaught(o)
             THEN LET conv == add_message(conversation, "system_note",
                                          TurnErrorNote(turn))
                  IN  /\ conversation' = conv
                      /\ result' = [result EXCEPT !.conversation = conv]
                      /\ UNCHANGED <<braced_content, turn, messages,
                                     completion_calls, genuine_turns,
                                     gateway_errors>>
                      /\ LeaveLoop("error", turn, task_log)
             ELSE /\ UNCHANGED <<conversation, result, braced_content, turn,
                                 messages, completion_calls, genuine_turns,
                                 gateway_errors, judge_calls, judged>>
                  /\ stop' = [reason |-> "raised", turn |-> turn]
                  /\ RaiseToBatch(task_log)
        ELSE LET assistant_message == AssistantMessage(o)
                 conv1 == add_message(conversation, "assistant",
                                      assistant_message)
                 braced == FirstSpan(assistant_message)
                 conv2 == add_message(conv1, "system_note",
                                      PreservedNote(braced))
                 count == TurnsCountAfter(result.turns_count)
             IN  /\ braced_content' = braced
                 /\ genuine_turns' =
                        genuine_turns + (IF o.kind = "ok" THEN 1 ELSE 0)
                 /\ gateway_errors' =
                        gateway_errors + (IF o.kind = "error" THEN 1 ELSE 0)
                 /\ IF StopsOnEmpty(braced, turn)
                    THEN LET conv3 == add_message(conv2, "system_note",
                                                  EndingNote)
                         IN  /\ conversation' = conv3
                             /\ result' = [result EXCEPT
                                              !.conversation = conv3,
                                              !.turns_count = count]
                             /\ UNCHANGED <<turn, messages,
                                            completion_calls>>
                             /\ LeaveLoop("empty_span", turn, task_log)
                    ELSE /\ conversation' = conv2
                         /\ result' = [result EXCEPT
                                          !.conversation = conv2,
                                          !.turns_count = count]
                         /\ IF HasNextTurn(turn, max_turns)
                            THEN /\ turn' = turn + 1
                                 /\ messages' =
                                        BuildMessages(turn + 1, conv2, braced)
                                 /\ completion_calls' = completion_calls + 1
                                 /\ UNCHANGED <<judge_calls, judged, stop>>
                                 /\ StayInRun("completion", task_log)
                            ELSE /\ UNCHANGED <<turn, messages,
                                                completion_calls>>
                                 /\ LeaveLoop("max_turns", turn, task_log)
    /\ chat_completion_calls' =
           chat_completion_calls + (completion_calls' - completion_calls)
    /\ UNCHANGED <<args, next_run_id, judge_outcome, host, summary_arg,
                   summary_ret, extraction, request, construction,
                   brace_call,
                   card_call,
                   test_run,
                   route>>

\* evaluate_conversation returns or raises; the engine returns its RunResult
\* and the batch loop runs up to the next task
JudgeReturns ==
    /\ pc = "judge"
    /\ \E o \in judge_pool :
        /\ judge_outcome' = o.kind
        /\ IF o.kind = "value"
           THEN /\ result' = ApplyEvaluation(result, o.value)
                /\ conversation' = conversation
                /\ ReturnToBatch(result', task_log)
           ELSE IF EvaluationErrorCaught(o)
           THEN LET conv == add_message(conversation, "system_note",
                                        EvaluationErrorNote(o))
                IN  /\ conversation' = conv
                    /\ result' = FailedEvaluationResult(result, conv)
                    /\ ReturnToBatch(result', task_log)
           ELSE /\ UNCHANGED <<conversation, result>>
                /\ RaiseToBatch(task_log)
    /\ UNCHANGED <<args, next_run_id, braced_content, turn, messages,
                   completion_calls, chat_completion_calls, judge_calls,
                   judged, genuine_turns, gateway_errors, stop, host,
                   summary_arg, summary_ret, extraction, request, construction,
                   brace_call,
                   card_call,
                   test_run,
                   route>>

Next == StartTask \/ CompletionReturns \/ JudgeReturns

Spec == Init /\ [][Next]_vars

BatchSpec == BatchInit /\ [][Next]_vars

\* the event loop runs the coroutine up to its next await, and every awaited
\* call of the provider and of the judge returns or raises
FairSpec ==
    /\ FairInit
    /\ [][Next]_vars
    /\ WF_vars(StartTask)
    /\ WF_vars(CompletionReturns)
    /\ WF_vars(JudgeReturns)

\* as StatusAfter, the row of the batch never updated
StatusAfterKeepsRunning(raised, e) == "running"

\* the status of the batch when run_batch_task ends: "completed", or
\* "error" after an exception; when the update of the except branch fails
\* too (e = "raise") the row keeps its status
StatusAfter(raised, e) ==
    IF ~raised THEN "completed"
    ELSE IF e = "ok" THEN "error"
    ELSE "running"

\* the host of the batch, once run_batch_interaction has returned: a summary
\* is generated and stored for every model that has results, then the batch
\* is marked completed; an exception marks it as failed
StoreAndSummarize ==
    /\ pc = "done"
    /\ batch_status = "running"
    /\ \E d \in db_pool, f \in [ModelSet(models) -> SynthesisOutcomes] :
        LET run == RunSummaries(results, KeysInOrder(models), f)
        IN  IF d = "ok"
            THEN /\ summary_calls' = run.calls
                 /\ synthesis_calls' = run.synthesis
                 /\ summaries' = IF run.raised THEN <<>> ELSE run.stored
                 /\ batch_status' = StatusAfter(run.raised, "ok")
            ELSE /\ summary_calls' = <<>>
                 /\ synthesis_calls' = <<>>
                 /\ summaries' = <<>>
                 /\ \E e \in db_pool : batch_status' = StatusAfter(TRUE, e)
    /\ pc' = "stored"
    /\ UNCHANGED <<args, run_state, batch_state, persona_cards,
                   persona_calls, persona_outcomes, summary_arg,
                   summary_ret, extraction, request, construction,
                   brace_call, card_call, test_run, route>>

\* generate_persona_cards on the mapping of a completed batch
GeneratePersonaCards ==
    /\ pc = "stored"
    /\ batch_status = "completed"
    /\ \E g \in [ModelSet(models) -> PersonaKinds] :
        /\ persona_outcomes' = g
        /\ persona_calls' = PersonaCalls(results, KeysInOrder(models))
        /\ persona_cards' =
               [m \in ModelsToProcess(results) |->
                   PersonaEntry(results[m], g[m])]
    /\ pc' = "cards"
    /\ UNCHANGED <<args, run_state, batch_state, summaries, summary_calls,
                   synthesis_calls, batch_status, summary_arg, summary_ret, extraction, request, construction,
                   brace_call,
                   card_call,
                   test_run,
                   route>>

\* a caller's generate_model_summary(summary_arg)
CallGenerateModelSummary ==
    /\ summary_ret.kind = "none"
    /\ \E o \in SynthesisOutcomes :
        summary_ret' = GenerateModelSummary(summary_arg, o)
    /\ UNCHANGED <<args, run_state, batch_state, pc, host, summary_arg,
                   extraction, request, construction,
                   brace_call,
                   card_call,
                   test_run,
                   route>>

\* a caller's _extract_json_from_text(json_text)
CallExtractJsonFromText ==
    /\ json_ret.kind = "none"
    /\ json_ret' = ExtractJsonFromText(json_text)
    /\ UNCHANGED <<args, run_state, batch_state, pc, host, summary_arg,
                   summary_ret, json_text, json_parts, request, construction,
                   brace_call,
                   card_call,
                   test_run,
                   route>>

\* the decorator's loop calls _make_request, which runs up to the await of
\* client.get or client.post; the time spent so far is taken when a try
\* starts, so nothing has passed at the first one
SendRequest ==
    /\ request_pc \in {"call", "sleep"}
    /\ tries' = tries + 1
    /\ IF MethodSupported(request_method)
       THEN /\ request_pc' = "http"
            /\ \E exceeded \in BOOLEAN :
                /\ tries = 0 => ~exceeded
                /\ max_time_exceeded' = exceeded
            /\ UNCHANGED request_ret
       ELSE /\ request_pc' = "done"
            /\ request_ret' =
                   RequestRaises([type |-> "ValueError", code |-> 0,
                                  attempt |-> 0])
            /\ UNCHANGED max_time_exceeded
    /\ UNCHANGED <<args, run_state, batch_state, pc, host, summary_arg,
                   summary_ret, extraction, request_method, attempts,
                   construction,
                   brace_call,
                   card_call,
                   test_run,
                   route>>

\* the HTTP attempt ends: raise_for_status and response.json(), then the
\* decorator's except branch, which re-raises or sleeps before the next try
ResponseArrives ==
    /\ request_pc = "http"
    /\ \E o \in HttpOutcomes :
        LET error == ErrorOf(o, tries)
        IN  /\ attempts' = Append(attempts, o)
            /\ IF o.kind = "ok"
               THEN /\ request_pc' = "done"
                    /\ request_ret' = RequestReturns
               ELSE IF Retryable(error)
                       /\ ~GivesUp(tries, max_time_exceeded)
               THEN /\ request_pc' = "sleep"
                    /\ UNCHANGED request_ret
               ELSE /\ request_pc' = "done"
                    /\ request_ret' = RequestRaises(error)
    /\ UNCHANGED <<args, run_state, batch_state, pc, host, summary_arg,
                   summary_ret, extraction, request_method, tries,
                   max_time_exceeded, construction,
                   brace_call,
                   card_call,
                   test_run,
                   route>>

RequestNext == SendRequest \/ ResponseArrives

\* HermitBench(settings)
Construct ==
    /\ engine = "new"
    /\ LET r == load_prompt(prompt_file, None)
       IN  /\ initial_prompt' = LoadedInitialPrompt(r)
           /\ engine' = EngineAfter(r)
    /\ UNCHANGED <<models, num_runs_per_model, max_turns, task_delay_ms,
                   progress_callback, callback_pool, db_pool, gateway_pool, judge_pool, total_tasks,
                   run_state, batch_state, pc, host, summary_arg,
                   summary_ret, extraction, request, prompt_file,
                   brace_call,
                   card_call,
                   test_run,
                   route>>

\* the handler calls run_batch_interaction of the engine it built, for one
\* run of one model
CallRunBatch ==
    /\ engine = "built"
    /\ models = <<>>
    /\ pc = "done"
    /\ \E m \in ModelIds, mt \in 0..MaxTurns :
        /\ models' = <<m>>
        /\ num_runs_per_model' = 1
        /\ max_turns' = mt
        /\ task_delay_ms' = DefaultDelay
        /\ results' = NewResults(<<m>>)
        /\ total_tasks' = 1
    /\ gateway_pool' = GatewayOutcomes
    /\ judge_pool' = JudgeOutcomes
    /\ pc' = "task"
    /\ UNCHANGED <<progress_callback, callback_pool, db_pool, initial_prompt, run_state, model_idx,
                   run_index, completed_tasks, task_log, progress_calls, callback_errors,
                   sleeps, host, summary_arg,
                   summary_ret, extraction, request, construction,
                   brace_call,
                   card_call,
                   test_run,
                   route>>

EngineNext == Construct \/ CallRunBatch \/ Next

\* a caller's _extract_braced_content(brace_text)
CallExtractBracedContent ==
    /\ brace_ret.kind = "none"
    /\ brace_ret' = Extracted(extract_braced_content(brace_text))
    /\ UNCHANGED <<args, run_state, batch_state, pc, host, summary_arg,
                   summary_ret, extraction, request, construction,
                   brace_text,
                   card_call,
                   test_run,
                   route>>

\* a caller's generate_persona_card(card_results)
CallGeneratePersonaCard ==
    /\ card_ret.kind = "none"
    /\ IF card_results = <<>>
       THEN /\ card_ret' = CardReturned(JudgePersonaCard(card_results))
            /\ UNCHANGED card_prompt
       ELSE /\ card_prompt' = PersonaPrompt(card_results)
            /\ \E kind \in PersonaKinds :
                card_ret' = IF kind = "card"
                            THEN CardReturned(JudgePersonaCard(card_results))
                            ELSE CardRaised
    /\ UNCHANGED <<args, run_state, batch_state, pc, host, summary_arg,
                   summary_ret, extraction, request, construction,
                   brace_call, card_results,
                   test_run,
                   route>>

\* the handler of POST /api/test-run: it stores the batch as running, hands
\* run_test_batch to the background tasks and returns
PostTestRun ==
    /\ test_task = "none"
    /\ batch_status' = "running"
    /\ test_task' = "scheduled"
    /\ test_response' = StartedResponse
    /\ UNCHANGED <<args, run_state, batch_state, pc, summaries,
                   summary_calls, synthesis_calls, persona_cards,
                   persona_calls, persona_outcomes, summary_arg,
                   summary_ret, extraction, request, construction,
                   brace_call, card_call,
                   route>>

\* the background task starts, after the response was sent: run_test_batch
\* calls run_batch_interaction with the standard parameters
RunTestBatch ==
    /\ test_task = "scheduled"
    /\ models' = test_models
    /\ num_runs_per_model' = 1
    /\ max_turns' = TestRunTurns
    /\ task_delay_ms' = TestRunDelay
    /\ results' = NewResults(test_models)
    /\ total_tasks' = 1
    /\ gateway_pool' = GatewayOutcomes
    /\ judge_pool' = JudgeOutcomes
    /\ pc' = "task"
    /\ test_task' = "running"
    /\ UNCHANGED <<progress_callback, callback_pool, db_pool, initial_prompt, run_state, model_idx,
                   run_index, completed_tasks, task_log, progress_calls, callback_errors,
                   sleeps, host, summary_arg, summary_ret, extraction,
                   request, construction, brace_call, card_call,
                   test_response,
                   route>>

\* run_test_batch once run_batch_interaction has returned: the runs are
\* stored, a summary is generated and stored for every model that has
\* results, then the batch is marked completed; an exception marks it as
\* failed
StoreTestResults ==
    /\ test_task = "running"
    /\ pc = "done"
    /\ \E f \in [ModelSet(models) -> SynthesisOutcomes] :
        LET run == RunSummaries(results, KeysInOrder(models), f)
        IN  /\ summary_calls' = run.calls
            /\ synthesis_calls' = run.synthesis
            /\ summaries' = IF run.raised THEN <<>> ELSE run.stored
            /\ batch_status' = IF run.raised THEN "error" ELSE "completed"
    /\ pc' = "stored"
    /\ test_task' = "finished"
    /\ UNCHANGED <<args, run_state, batch_state, persona_cards,
                   persona_calls, persona_outcomes, summary_arg,
                   summary_ret, extraction, request, construction,
                   brace_call, card_call, test_response,
                   route>>

TestRunNext == PostTestRun \/ RunTestBatch \/ Next \/ StoreTestResults

\* the handler of POST /run-batch: it stores the batch as running, hands
\* run_batch_task to the background tasks and returns
PostRunBatch ==
    /\ batch_status = "absent"
    /\ pc = "done"
    /\ \E req \in BatchRequests, j \in JudgeOutcomes :
        /\ models' = req[1]
        /\ num_runs_per_model' = req[2]
        /\ max_turns' = req[3]
        /\ total_tasks' = Len(req[1]) * req[2]
        /\ judge_pool' = {j}
    /\ task_delay_ms' = DefaultDelay
    /\ progress_callback' = TRUE
    /\ gateway_pool' = {[kind |-> "ok", content |-> <<"a", "{", "b", "}", "c">>]}
    /\ batch_status' = "running"
    /\ pc' = "scheduled"
    /\ last_response' = BatchResponse("run-batch", "batch_1", 200)
    /\ UNCHANGED <<initial_prompt, callback_pool, db_pool, run_state,
                   batch_state, summaries, summary_calls, synthesis_calls,
                   persona_cards, persona_calls, persona_outcomes,
                   summary_arg, summary_ret, extraction, request,
                   construction, brace_call, card_call, test_run>>

\* run_batch_task starts, after the response was sent: it calls
\* run_batch_interaction with the parameters of the request
RunBatchTask ==
    /\ pc = "scheduled"
    /\ results' = NewResults(models)
    /\ pc' = IF HasTasks(models, num_runs_per_model) THEN "task" ELSE "done"
    /\ UNCHANGED <<args, run_state, model_idx, run_index, completed_tasks,
                   task_log, progress_calls, callback_errors, sleeps, host,
                   summary_arg, summary_ret, extraction, request,
                   construction, brace_call, card_call, test_run, route>>

\* GET /batch/{batch_id}/results
GetBatchResults ==
    /\ \E b \in BatchIds :
        last_response' = BatchResponse("results", b, BatchGate(b))
    /\ UNCHANGED <<args, run_state, batch_state, pc, host, summary_arg,
                   summary_ret, extraction, request, construction,
                   brace_call, card_call, test_run>>

\* GET /batch/{batch_id}/summaries: a completed batch without summaries is
\* answered with 400
GetBatchSummaries ==
    /\ \E b \in BatchIds :
        last_response' =
            BatchResponse("summaries", b,
                          IF BatchGate(b) = 200 /\ summaries = <<>>
                          THEN 400 ELSE BatchGate(b))
    /\ UNCHANGED <<args, run_state, batch_state, pc, host, summary_arg,
                   summary_ret, extraction, request, construction,
                   brace_call, card_call, test_run>>

\* POST /batch/{batch_id}/personas: for a completed batch the cards are
\* generated from the stored runs
PostBatchPersonas ==
    /\ \E b \in BatchIds :
        /\ last_response' = BatchResponse("personas", b, BatchGate(b))
        /\ IF BatchGate(b) = 200
           THEN \E g \in [ModelSet(models) -> PersonaKinds] :
                   /\ persona_outcomes' = g
                   /\ persona_calls' =
                          PersonaCalls(results, KeysInOrder(models))
                   /\ persona_cards' =
                          [m \in ModelsToProcess(results) |->
                              PersonaEntry(results[m], g[m])]
           ELSE UNCHANGED <<persona_outcomes, persona_calls, persona_cards>>
    /\ UNCHANGED <<args, run_state, batch_state, pc, summaries,
                   summary_calls, synthesis_calls, batch_status,
                   summary_arg, summary_ret, extraction, request,
                   construction, brace_call, card_call, test_run>>

\* POST /batch/{batch_id}/report: for a completed batch the report is
\* generated, 404 when the batch has no rows for it, 400 for an unknown type
PostBatchReport ==
    /\ \E b \in BatchIds, report_type \in ReportTypes :
        last_response' =
            BatchResponse("report", b,
                IF BatchGate(b) # 200 THEN BatchGate(b)
                ELSE IF report_type = "other" THEN 400
                ELSE IF report_type = "csv_summary" /\ summaries = <<>>
                THEN 404
                ELSE IF report_type # "csv_summary" /\ ~RunsStored THEN 404
                ELSE 200)
    /\ UNCHANGED <<args, run_state, batch_state, pc, host, summary_arg,
                   summary_ret, extraction, request, construction,
                   brace_call, card_call, test_run>>

RouteNext ==
    \/ PostRunBatch
    \/ RunBatchTask
    \/ Next
    \/ StoreAndSummarize
    \/ GetBatchResults
    \/ GetBatchSummaries
    \/ PostBatchPersonas
    \/ PostBatchReport

HostNext == Next \/ StoreAndSummarize \/ GeneratePersonaCards

HostSpec == HostInit /\ [][HostNext]_vars

SummarySpec == SummaryInit /\ [][CallGenerateModelSummary]_vars

ExtractSpec == ExtractInit /\ [][CallExtractJsonFromText]_vars

RequestSpec == RequestInit /\ [][RequestNext]_vars

EngineSpec == EngineInit /\ [][EngineNext]_vars

BraceSpec == BraceInit /\ [][CallExtractBracedContent]_vars

CardSpec == CardInit /\ [][CallGeneratePersonaCard]_vars

CallbackSpec == CallbackInit /\ [][Next]_vars

RouteSpec == RouteInit /\ [][RouteNext]_vars

\* the step of StoreAndSummarize, by what it does to the position of the
\* host: the only step that takes a running batch from "done" to "stored"
StoreStep ==
    /\ pc = "done"
    /\ batch_status = "running"
    /\ pc' = "stored"

\* the background task is run once the response is sent, the event loop
\* runs the coroutine up to its next await, and every awaited call returns
\* or raises
FairRouteSpec ==
    /\ FairRouteInit
    /\ [][RouteNext]_vars
    /\ WF_vars(RunBatchTask)
    /\ WF_vars(StartTask)
    /\ WF_vars(CompletionReturns)
    /\ WF_vars(JudgeReturns)
    /\ WF_pc(StoreStep)

TestRunSpec == TestRunInit /\ [][TestRunNext]_vars

TypeOK ==
    /\ pc \in {"scheduled", "task", "completion", "judge", "done", "stored",
              "cards"}
    /\ completed_tasks \in 0..total_tasks
    /\ result.turns_count \in 0..MaxTurns

(***************************************************************************)
(* Properties                                                              *)
(***************************************************************************)
RunStatus ==
    IF task_log = <<>> THEN "none" ELSE task_log[Len(task_log)].status

AssistantIdx(conv) == {i \in 1..Len(conv) : conv[i].role = "assistant"}

\* the content of the last assistant message of a log that has one
LastReply(conv) ==
    conv[CHOOSE i \in AssistantIdx(conv) :
            \A j \in AssistantIdx(conv) : j <= i].content

LastMessage(conv) == conv[Len(conv)]

TwoSpans == <<"{", "b", "}", "{", "c", "}">>

\* C1: while the completion of a turn k > 0 is in flight, its request is
\* exactly the system message and one user message holding the first brace
\* span of the reply logged for turn k-1; no message of the request is that
\* full reply or the initial instruction.
C1_ShrunkContext ==
    (pc = "completion" /\ turn > 0) =>
        /\ Cardinality(AssistantIdx(conversation)) = turn
        /\ messages =
              << [role |-> "system", content |-> SystemText],
                 [role |-> "user",
                  content |-> FirstSpan(LastReply(conversation))] >>
        /\ \A i \in 1..Len(messages) :
              /\ messages[i].content # LastReply(conversation)
              /\ messages[i].content # initial_prompt

C1_Witness ==
    /\ pc = "completion"
    /\ turn = 2
    /\ LastReply(conversation) = TwoSpans
    /\ messages[2].content = <<"b">>

\* C2: in every run of a batch, the first as well as the later ones, the
\* request of turn 0 is exactly the system message followed by the initial
\* instruction as the user message.
C2_FirstTurnContext ==
    (pc = "completion" /\ turn = 0) =>
        messages = << [role |-> "system", content |-> SystemText],
                      [role |-> "user", content |-> initial_prompt] >>

C2_Witness ==
    /\ pc = "completion"
    /\ turn = 0
    /\ Len(task_log) >= 2
    /\ \E m \in DOMAIN results :
          /\ results[m] # <<>>
          /\ results[m][1].turns_count >= 2

\* C3: once a completion call of the run has raised, the loop has stopped on
\* an error: no completion is in flight, and the log ends the turns with a
\* system_note that describes the error.
C3_GatewayErrorStopsLoop ==
    gateway_errors > 0 =>
        /\ pc # "completion"
        /\ stop.reason = "error"
        /\ \E i \in 1..Len(conversation) :
              /\ conversation[i].role = "system_note"
              /\ conversation[i].content[1] = "SYSTEM ERROR: Error in turn "

\* C4: a run whose arguments are well typed never raises, whatever the
\* provider and the judge answer; when it is over it has returned its
\* RunResult to the caller.
C4_RunAlwaysReturns ==
    \A i \in 1..Len(task_log) :
        ~SetupRaises(models[task_log[i].model_idx], initial_prompt) =>
            /\ task_log[i].status # "raised"
            /\ (i = Len(task_log) /\ pc \in {"task", "done"}) =>
                  /\ task_log[i].status = "returned"
                  /\ results[result.model_name] # <<>>
                  /\ LastMessage(results[result.model_name]) = result

C4_Witness ==
    /\ pc = "done"
    /\ RunStatus = "returned"
    /\ genuine_turns = 0
    /\ gateway_errors >= 2
    /\ judge_outcome = "raise"
    /\ LastMessage(results[result.model_name]) = result

\* C5: the judge is not called while turns are still being run, it is called
\* once the loop has been left (for any of the three reasons) with the
\* conversation accumulated by then, and a run that has returned has called
\* it exactly once.
C5_JudgeOnceAfterLoop ==
    /\ pc = "completion" =>
          judge_calls = 0 /\ stop.reason = "none" /\ judge_outcome = "none"
    /\ pc = "judge" =>
          /\ judge_calls = 1
          /\ stop.reason \in {"max_turns", "empty_span", "error"}
          /\ judge_outcome = "none"
          /\ judged = conversation
    /\ RunStatus = "returned" =>
          /\ judge_calls = 1
          /\ judge_outcome # "none"
          /\ Cardinality(AssistantIdx(judged)) = result.turns_count

C5_Witness ==
    /\ RunStatus = "returned"
    /\ stop.reason = "error"
    /\ result.turns_count >= 1
    /\ judge_calls = 1
    /\ judge_outcome = "value"
    /\ Len(judged) = Len(conversation)

\* C6: a step in which the evaluation fails leaves every judge-derived field
\* at its default, appends exactly one system_note recording the evaluation
\* error, changes neither turns_count nor the earlier messages, and returns
\* the RunResult to the caller.
C6_FailedEvaluationKeepsDefaults ==
    [][(pc = "judge" /\ judge_outcome' \in {"raise", "nondict"}) =>
          /\ \A f \in JudgeFields : result'[f] = NoRun[f]
          /\ Len(conversation') = Len(conversation) + 1
          /\ SubSeq(conversation', 1, Len(conversation)) = conversation
          /\ LastMessage(conversation').role = "system_note"
          /\ LastMessage(conversation').content[1] =
                "EVALUATION ERROR: Error in evaluation: "
          /\ result'.turns_count = result.turns_count
          /\ result'.conversation = conversation'
          /\ RunStatus' = "returned"
          /\ results'[result.model_name] =
                Append(results[result.model_name], result')]_vars

C6_Witness ==
    /\ RunStatus = "returned"
    /\ judge_outcome = "raise"
    /\ result.turns_count >= 2
    /\ result.judge_evaluation = None
    /\ LastMessage(conversation).content[1] =
          "EVALUATION ERROR: Error in evaluation: "

\* C7 as stated: a run stopped by an empty span on turn k > 0 returns
\* turn_count = k.
C7_TurnCountIsK ==
    (RunStatus = "returned" /\ stop.reason = "empty_span") =>
        result.turns_count = stop.turn

\* C7 amended: a loop stopped by an empty span was stopped on a turn k > 0,
\* no further completion is requested, and turn_count is k + 1: the reply of
\* turn k is counted.
C7_TurnCountIsKPlusOne ==
    stop.reason = "empty_span" =>
        /\ stop.turn > 0
        /\ pc # "completion"
        /\ completion_calls = stop.turn + 1
        /\ result.turns_count = stop.turn + 1

C7_Witness ==
    /\ RunStatus = "returned"
    /\ stop.reason = "empty_span"
    /\ stop.turn = 2
    /\ result.turns_count = 3

\* C8: the turn_count of a returned RunResult is the number of turns in which
\* the provider's reply was obtained and logged, and lies in 0..max_turns.
C8_TurnCountIsCompletedTurns ==
    RunStatus = "returned" =>
        /\ result.turns_count = genuine_turns
        /\ result.turns_count \in 0..max_turns

\* C9: a raising task is skipped and nothing else: every model's list holds
\* one RunResult of that model per task of the model that returned, the
\* mapping has the requested models as keys, and a finished batch has issued
\* every one of its tasks.
ReturnedTasks(m) ==
    {i \in 1..Len(task_log) :
        /\ models[task_log[i].model_idx] = m
        /\ task_log[i].status = "returned"}

RaisedTasks == {i \in 1..Len(task_log) : task_log[i].status = "raised"}

C9_FailedTasksSkipped ==
    /\ DOMAIN results = ModelSet(models)
    /\ \A m \in DOMAIN results :
          /\ Len(results[m]) = Cardinality(ReturnedTasks(m))
          /\ \A k \in 1..Len(results[m]) : results[m][k].model_name = m
    /\ pc = "done" => Len(task_log) = total_tasks

C9_Witness ==
    /\ pc = "done"
    /\ total_tasks = 4
    /\ Cardinality(RaisedTasks) = 2
    /\ task_log[1].status = "raised"
    /\ task_log[4].status = "returned"
    /\ Len(results[models[2]]) = 2
    /\ results[models[1]] = <<>>

\* C10: tasks are issued in the order of the models, and for each model in
\* the order of the repetitions; only the task issued last can be running,
\* and only while one of its calls is in flight; every model's list holds
\* its RunResults in the order in which they were issued.
C10_SequentialInOrder ==
    /\ \A i \in 1..Len(task_log) :
          /\ task_log[i].model_idx = ((i - 1) \div num_runs_per_model) + 1
          /\ task_log[i].run_index = (i - 1) % num_runs_per_model
          /\ task_log[i].status = "running" =>
                i = Len(task_log) /\ pc \in {"completion", "judge"}
    /\ pc \in {"completion", "judge"} => RunStatus = "running"
    /\ \A m \in DOMAIN results :
          \A k \in 1..(Len(results[m]) - 1) :
              results[m][k].run_id < results[m][k + 1].run_id

C10_Witness ==
    /\ pc = "done"
    /\ Len(task_log) = 4
    /\ RaisedTasks = {}
    /\ models[1] # models[2]
    /\ Len(results[models[1]]) = 2
    /\ Len(results[models[2]]) = 2
    /\ results[models[1]][2].run_id < results[models[2]][1].run_id

\* C11: with a callback, the callback has been invoked once per task that
\* returned and never for a task that raised; its k-th invocation carries
\* (k, len(models) * num_runs_per_model), so the counts are 1, 2, 3, ...,
\* never above the total, and when the batch is over the last count is the
\* number of RunResults of the returned mapping.  Without a callback nothing
\* is invoked.
RECURSIVE TotalResults(_, _)
TotalResults(res, keys) ==
    IF keys = {} THEN 0
    ELSE LET m == CHOOSE k \in keys : TRUE
         IN  Len(res[m]) + TotalResults(res, keys \ {m})

ReturnedCount ==
    Cardinality({i \in 1..Len(task_log) : task_log[i].status = "returned"})

C11_ProgressCounts ==
    /\ ~progress_callback => progress_calls = <<>>
    /\ progress_callback =>
          /\ Len(progress_calls) = ReturnedCount
          /\ \A k \in 1..Len(progress_calls) :
                /\ progress_calls[k] =
                      <<k, Len(models) * num_runs_per_model>>
                /\ progress_calls[k][1] <= progress_calls[k][2]
          /\ (pc = "done" /\ progress_calls # <<>>) =>
                progress_calls[Len(progress_calls)][1] =
                    TotalResults(results, DOMAIN results)

C11_Witness ==
    /\ pc = "done"
    /\ progress_callback
    /\ Len(task_log) = 4
    /\ task_log[1].status = "returned"
    /\ task_log[3].status = "raised"
    /\ progress_calls = << <<1, 4>>, <<2, 4>> >>
    /\ TotalResults(results, DOMAIN results) = 2

\* C12: with task_delay_ms > 0, whatever the models list (a repeated
\* identifier included), a task that returned was followed by a sleep
\* exactly when it is not the last task of the whole batch.
SleptAfter(i) ==
    \E k \in 1..Len(sleeps) :
        sleeps[k] = <<task_log[i].model_idx, task_log[i].run_index>>

C12_SleepsBetweenTasks ==
    task_delay_ms > 0 =>
        \A i \in 1..Len(task_log) :
            task_log[i].status = "returned" =>
                (SleptAfter(i) <=> i < total_tasks)

\* C13: when a batch with max_turns >= 1 is over and none of its tasks
\* raised, the completion provider has been called len(models) *
\* num_runs_per_model times: once per task.
C13_OneCompletionPerTask ==
    (pc = "done" /\ RaisedTasks = {} /\ max_turns >= 1) =>
        chat_completion_calls = Len(models) * num_runs_per_model

\* C14: the result mapping has exactly the requested identifiers as keys; a
\* model none of whose tasks returned keeps its key, with an empty list; the
\* host hands no empty list to generate_model_summary and stores no summary
\* for such a model, and generate_persona_cards hands no empty list to the
\* judge and returns no card for it.
EmptyModels == {m \in DOMAIN results : results[m] = <<>>}

C14_EmptyListsKeptAndSkipped ==
    /\ DOMAIN results = ModelSet(models)
    /\ pc \in {"done", "stored", "cards"} =>
          \A m \in ModelSet(models) :
              ReturnedTasks(m) = {} => m \in EmptyModels
    /\ pc \in {"stored", "cards"} =>
          /\ batch_status = "completed"
          /\ \A k \in 1..Len(summary_calls) : summary_calls[k] # <<>>
          /\ \A k \in 1..Len(summaries) :
                summaries[k].model_id \notin EmptyModels
    /\ pc = "cards" =>
          /\ \A k \in 1..Len(persona_calls) : persona_calls[k] # <<>>
          /\ DOMAIN persona_cards \cap EmptyModels = {}

C14_Witness ==
    /\ pc = "cards"
    /\ models = <<BadModel, "m1">>
    /\ results[BadModel] = <<>>
    /\ Len(results["m1"]) = 2
    /\ Len(summaries) = 1
    /\ summaries[1].model_id = "m1"
    /\ DOMAIN persona_cards = {"m1"}

\* C15: a call of generate_model_summary with an empty list raises; it
\* returns no ModelSummary and makes no call of the judge.
C15_EmptyListRaises ==
    (summary_arg = <<>> /\ summary_ret.kind # "none") =>
        /\ summary_ret.kind = "raise"
        /\ summary_ret.summary = None
        /\ summary_ret.synthesis_calls = <<>>

C15_Witness ==
    /\ summary_arg = <<>>
    /\ summary_ret.kind = "raise"

\* C16: the summary of a non-empty list has total_runs = len(list); each
\* average is the float of (sum of the field, None counted as 0) /
\* total_runs, and mirror_test_pass_rate the float of 100 * passes /
\* total_runs: rates 0.8 and 0.9 give 0.85, 2 of 2 passing gives 100.0.
C16_AveragesAsStated ==
    summary_ret.kind = "return" =>
        LET s == summary_ret.summary[1]
            n == Len(summary_arg)
        IN  /\ s.total_runs = n
            /\ s.avg_compliance_rate =
                  Literal(IntSum(summary_arg, "compliance_rate", n), 100 * n)
            /\ s.avg_failures =
                  Literal(IntSum(summary_arg, "failure_count", n), n)
            /\ s.avg_malformed_braces =
                  Literal(IntSum(summary_arg, "malformed_braces_count", n), n)
            /\ s.avg_autonomy_score =
                  Literal(IntSum(summary_arg, "autonomy_score", n), 10 * n)
            /\ s.mirror_test_pass_rate =
                  Literal(100 * MirrorTestPasses(summary_arg), n)

\* C17: a summary of more than one run has asked the judge for exactly one
\* thematic synthesis, of the full list; a summary of a single run has asked
\* for none and its thematic_synthesis is unset.
C17_SynthesisOnlyForSeveralRuns ==
    summary_ret.kind = "return" =>
        /\ Len(summary_arg) > 1 =>
              /\ summary_ret.synthesis_calls = <<summary_arg>>
              /\ summary_ret.summary[1].thematic_synthesis # None
        /\ Len(summary_arg) = 1 =>
              /\ summary_ret.synthesis_calls = <<>>
              /\ summary_ret.summary[1].thematic_synthesis = None

C17_Witness ==
    /\ summary_ret.kind = "return"
    /\ Len(summary_arg) = 2
    /\ summary_ret.synthesis_calls = <<summary_arg>>
    /\ summary_ret.summary[1].thematic_synthesis =
          Some(<<"Thematic synthesis...">>)
    /\ summary_ret.summary[1].total_runs = 2

\* C18: generate_persona_cards returns; it has asked the judge for one card
\* per model that has results, and for no other; a model for which the judge
\* raised has an error marker as its entry, and every other model with
\* results has the judge's card as its entry.
ModelsWithResults == DOMAIN results \ EmptyModels

C18_PersonaCardsPerModel ==
    pc = "cards" =>
        /\ Len(persona_calls) = Cardinality(ModelsWithResults)
        /\ \A m \in ModelsWithResults :
              \E k \in 1..Len(persona_calls) : persona_calls[k] = results[m]
        /\ DOMAIN persona_cards = ModelsWithResults
        /\ \A m \in ModelsWithResults :
              /\ persona_outcomes[m] = "raise" =>
                    /\ persona_cards[m].error # None
                    /\ persona_cards[m].persona = None
              /\ persona_outcomes[m] = "card" =>
                    /\ persona_cards[m] = JudgePersonaCard(results[m])
                    /\ persona_cards[m].persona[1].model = m

C18_Witness ==
    /\ pc = "cards"
    /\ models = <<"m1", "m2">>
    /\ Len(results["m1"]) = 2
    /\ Len(results["m2"]) = 2
    /\ persona_outcomes["m1"] = "raise"
    /\ persona_outcomes["m2"] = "card"
    /\ persona_cards["m1"] = ErrorMarker
    /\ persona_cards["m2"].persona[1].model = "m2"

ValueOf(r) == [kind |-> r.kind, value |-> r.value]

\* the groups of the brace pattern that parse
ParsedGroups(t) ==
    {k \in 1..Len(BraceMatches(t, 1)) : Loads(BraceMatches(t, 1)[k]).st = "ok"}

\* what the steps, tried in order, give for a text
FirstSuccess(t) ==
    IF Loads(t).st = "ok" THEN Returns(Loads(t).v, 1)
    ELSE IF FencedSearch(t) # None /\ Loads(FencedSearch(t)[1]).st = "ok"
    THEN Returns(Loads(FencedSearch(t)[1]).v, 2)
    ELSE IF ParsedGroups(t) # {}
    THEN Returns(Loads(BraceMatches(t, 1)[FirstIn(ParsedGroups(t))]).v, 3)
    ELSE Returns(ExtractionError(t), 4)

\* C19: _extract_json_from_text raises for no text: it returns the strict
\* parse of the whole text, else of the fenced block, else of the first brace
\* group that parses, else the error object whose raw_text is the whole text
C19_NeverRaisesFirstSuccess ==
    json_ret.kind # "none" =>
        /\ json_ret.kind = "return"
        /\ json_ret = FirstSuccess(json_text)

\* the text of a JSON object
IsJsonObject(t) == Loads(t).st = "ok" /\ Loads(t).v.type = "obj"

\* C20: a JSON object in a block tagged json, with or without prose around
\* the block, is extracted to the value that its bare text is extracted to
C20_FencedParsesAsBare ==
    (/\ json_ret.kind # "none"
     /\ json_parts.wrapping \in {"json", "tight"}
     /\ IsJsonObject(json_parts.body)) =>
        ValueOf(json_ret) = ValueOf(ExtractJsonFromText(json_parts.body))

\* prose without braces and without a fence
PlainProse(parts) ==
    /\ parts.pre \in {<<>>, <<Word, Space>>}
    /\ parts.post \in {<<>>, <<Space, Word>>}

\* C21: a JSON object, nested objects included, that stands without a fence
\* in prose is what the extraction returns, not the error object
C21_EmbeddedObjectReturned ==
    (/\ json_ret.kind # "none"
     /\ json_parts.wrapping = "bare"
     /\ PlainProse(json_parts)
     /\ IsJsonObject(json_parts.body)) =>
        ValueOf(json_ret) = ValueOf(Returns(Loads(json_parts.body).v, 3))

MetricFields ==
    {"compliance_rate", "failure_count", "malformed_braces_count",
     "mirror_test_passed", "autonomy_score", "topics", "exploration_style"}

\* C22: when the judge's reply parses at no step, the evaluation returns the
\* error object, the run returns, and every metric field of the RunResult is
\* as unset as after an evaluation that raised
C22_ErrorObjectLeavesMetricsUnset ==
    (pc = "done" /\ judge_outcome = "value"
        /\ result.judge_evaluation = Some(ErrorObject)) =>
        /\ RunStatus = "returned"
        /\ \A f \in MetricFields : result[f] = NoRun[f]

Failed(o) == o.kind # "ok"

\* network failures, timeouts, rate limiting and server errors
Transient(o) ==
    \/ o.kind \in {"network", "timeout"}
    \/ o.kind = "status" /\ o.code \in {429, 500}

\* a 4xx response other than rate limiting
NonTransient(o) == o.kind = "status" /\ o.code \in {400, 404}

\* C23: a gateway request makes at most 3 HTTP attempts, makes another one
\* only after a transient failure, returns at the first success, and after a
\* third failure raises the error of that attempt
C23_AtMostThreeAttempts ==
    /\ Len(attempts) <= 3
    /\ \A i \in 1..(Len(attempts) - 1) : Transient(attempts[i])
    /\ request_pc = "sleep" => Transient(attempts[Len(attempts)])
    /\ \A i \in 1..Len(attempts) :
          attempts[i].kind = "ok" =>
              i = Len(attempts) /\ request_ret = RequestReturns
    /\ (Len(attempts) = 3 /\ Failed(attempts[3])) =>
          /\ request_ret.kind = "raise"
          /\ request_ret.error = ErrorOf(attempts[3], 3)

\* C24: a 4xx response other than rate limiting is raised to the caller at
\* once: the attempt that got it is the only one and no retry follows
C24_NonTransientNotRetried ==
    \A i \in 1..Len(attempts) :
        NonTransient(attempts[i]) =>
            /\ i = Len(attempts)
            /\ request_pc = "done"
            /\ request_ret = RequestRaises(ErrorOf(attempts[i], i))
            /\ attempts[1] = attempts[i] => Len(attempts) = 1

\* C25: when the initial-instruction template fails to load, the engine is
\* built all the same, its initial instruction is the literal fallback
\* prompt, and no task of the batch that follows raises
C25_FallbackPromptOnLoadFailure ==
    (engine # "new" /\ load_prompt(prompt_file, None).kind = "raise") =>
        /\ engine = "built"
        /\ initial_prompt = FallbackPrompt
        /\ \A i \in 1..Len(task_log) : task_log[i].status # "raised"

\* the positions (i, j) of an open brace and the close brace that ends a
\* brace-free stretch after it
BracePairs(t) ==
    {p \in (1..Len(t)) \X (1..Len(t)) :
        /\ p[1] < p[2]
        /\ t[p[1]] = "{"
        /\ t[p[2]] = "}"
        /\ \A k \in (p[1] + 1)..(p[2] - 1) : ~IsBrace(t[k])}

\* the pair that has n - 1 pairs to its left
NthPair(t, n) ==
    CHOOSE p \in BracePairs(t) :
        Cardinality({q \in BracePairs(t) : q[1] < p[1]}) = n - 1

\* C26: _extract_braced_content returns, left to right, the content of every
\* brace pair whose content holds no brace, the empty list when there is no
\* such pair, and never raises; the three example texts give ["x","y"], []
\* and a single span that holds no brace and ends at the first close brace
C26_BraceFreeSpansInOrder ==
    brace_ret.kind # "none" =>
        /\ brace_ret.kind = "return"
        /\ Len(brace_ret.spans) = Cardinality(BracePairs(brace_text))
        /\ \A n \in 1..Len(brace_ret.spans) :
              /\ brace_ret.spans[n] =
                    SubSeq(brace_text, NthPair(brace_text, n)[1] + 1,
                           NthPair(brace_text, n)[2] - 1)
              /\ \A k \in 1..Len(brace_ret.spans[n]) :
                    ~IsBrace(brace_ret.spans[n][k])
        /\ brace_text = TwoSpanText => brace_ret.spans = << <<"x">>, <<"y">> >>
        /\ brace_text = NoBraceText => brace_ret.spans = <<>>
        /\ brace_text = NestedText => brace_ret.spans = << <<"b">> >>

C26_Witness ==
    /\ brace_ret.kind = "return"
    /\ brace_text = <<"{", "{", "}", "{", "a", "}">>
    /\ brace_ret.spans = << <<>>, <<"a">> >>

TopicCount(t) == CountIn(AllTopics(card_results), t)

\* the position at which a topic is first seen in the runs
FirstSeen(t) ==
    CHOOSE i \in 1..Len(AllTopics(card_results)) :
        /\ AllTopics(card_results)[i] = t
        /\ \A j \in 1..(i - 1) : AllTopics(card_results)[j] # t

\* topic t ranks before topic u
RanksBefore(t, u) ==
    \/ TopicCount(t) > TopicCount(u)
    \/ TopicCount(t) = TopicCount(u) /\ FirstSeen(t) < FirstSeen(u)

SeenTopics == {AllTopics(card_results)[i] : i \in 1..Len(AllTopics(card_results))}

\* C27: the top topics of a persona card are distinct, at most 5, in
\* descending order of their count over all runs with ties in first-seen
\* order, and no topic left out ranks before one that is kept
C27_TopTopicsByCountThenFirstSeen ==
    (card_ret.kind # "none" /\ card_results # <<>>) =>
        LET top == card_prompt.top_topics
        IN  /\ Len(top) <= 5
            /\ Len(top) = IF Cardinality(SeenTopics) < 5
                          THEN Cardinality(SeenTopics) ELSE 5
            /\ \A i \in 1..Len(top) : top[i] \in SeenTopics
            /\ \A i, j \in 1..Len(top) : i < j => RanksBefore(top[i], top[j])
            /\ \A t \in SeenTopics :
                  (\A i \in 1..Len(top) : top[i] # t) =>
                      \A i \in 1..Len(top) : RanksBefore(top[i], t)

\* counts {A:3, B:3, C:1} with A seen first
C27_Witness ==
    /\ card_ret.kind = "return"
    /\ TopicCount("A") = 3
    /\ TopicCount("B") = 3
    /\ TopicCount("C") = 1
    /\ card_prompt.top_topics = <<"A", "B", "C">>

AssistantMessages ==
    SelectSeq(conversation, LAMBDA m : m.role = "assistant")

\* C28: every assistant message of the run's log is the content of a reply
\* that the completion provider returned: the log has one assistant message
\* per reply obtained, each with the content of a reply of the provider.
C28_AssistantMessagesAreGatewayReplies ==
    /\ Len(AssistantMessages) = genuine_turns
    /\ \A i \in 1..Len(AssistantMessages) :
          \E o \in gateway_pool :
              /\ o.kind = "ok"
              /\ AssistantMessages[i].content = o.content

\* the same while no completion call of the run has raised
C28_WithoutGatewayErrors ==
    gateway_errors = 0 => C28_AssistantMessagesAreGatewayReplies

\* C29: the response of POST /api/test-run has status 200 and a body with
\* status "success" and the keys "results" and "summaries", and it is
\* produced when the interactions and the summaries of the test run are
\* complete.
C29_TestRunRespondsWithResults ==
    [][test_response' # test_response =>
          /\ test_response'.status_code = 200
          /\ test_response'.body.status = "success"
          /\ {"results", "summaries"} \subseteq DOMAIN test_response'.body
          /\ batch_status = "completed"
          /\ summaries # <<>>]_vars

\* the response that is sent: status 200, "started", and the batch id
C29_RespondsStarted ==
    test_response.kind = "sent" =>
        /\ test_response.status_code = 200
        /\ test_response.body.status = "started"
        /\ DOMAIN test_response.body = {"status", "message", "batch_id"}

IsPrefix(a, b) == Len(a) <= Len(b) /\ SubSeq(b, 1, Len(a)) = a

LoopEndingNotes ==
    {Message("system_note", EndingNote)}
    \cup {Message("system_note", TurnErrorNote(t)) : t \in 0..MaxTurns}

EvaluationErrorNotes ==
    {Message("system_note", EvaluationErrorNote(o)) : o \in JudgeOutcomes}

\* the log is empty (no run yet) or: system message, user instruction, one
\* assistant message and its note per turn counted, then the optional ending
\* notes
LogShape(conv, turns) ==
    \/ conv = <<>>
    \/ /\ Len(conv) >= 2 + 2 * turns
       /\ conv[1] = Message("system", SystemText)
       /\ conv[2] = Message("user", initial_prompt)
       /\ \A k \in 1..turns :
             /\ conv[2 * k + 1].role = "assistant"
             /\ conv[2 * k + 2] =
                    Message("system_note",
                            PreservedNote(FirstSpan(conv[2 * k + 1].content)))
       /\ LET rest == SubSeq(conv, 2 * turns + 3, Len(conv))
          IN  \/ rest = <<>>
              \/ Len(rest) = 1 /\ rest[1] \in LoopEndingNotes
              \/ Len(rest) = 1 /\ rest[1] \in EvaluationErrorNotes
              \/ /\ Len(rest) = 2
                 /\ rest[1] \in LoopEndingNotes
                 /\ rest[2] \in EvaluationErrorNotes

\* C30: every step of a run leaves the messages already logged where they
\* are and as they are, and the log has the shape: system message, user
\* instruction, then per completed turn an assistant message followed by
\* the note of its preserved span, then at most one loop-ending note, then
\* at most one evaluation-error note.
C30_LogAppendOnlyAndShaped ==
    [][/\ IsPrefix(conversation, conversation')
       /\ LogShape(conversation', result'.turns_count)]_vars

\* a log with two turns, the empty-span ending and a failed evaluation
C30_Witness ==
    /\ RunStatus = "returned"
    /\ result.turns_count = 2
    /\ Len(conversation) = 8
    /\ conversation[7] = Message("system_note", EndingNote)
    /\ conversation[8] \in EvaluationErrorNotes
    /\ result.conversation = conversation

\* the reply of turn 0 has just been logged and has no preserved span
FirstReplyWithoutSpan(conv) ==
    /\ Len(conv) >= 3
    /\ conv[3].role = "assistant"
    /\ FirstSpan(conv[3].content) = <<>>

\* C31: when the reply of turn 0 has no brace span and max_turns > 1, the
\* loop is not left: turn 1 is requested, with exactly the system message
\* and a user message of empty content.
C31_EmptyFirstReplyDoesNotStop ==
    [][(/\ pc = "completion"
        /\ turn = 0
        /\ max_turns > 1
        /\ FirstReplyWithoutSpan(conversation'))
       => /\ pc' = "completion"
          /\ turn' = 1
          /\ stop' = NoStop
          /\ completion_calls' = 2
          /\ messages' = << [role |-> "system", content |-> SystemText],
                            [role |-> "user", content |-> <<>>] >>]_vars

C31_Witness ==
    /\ pc = "completion"
    /\ turn = 1
    /\ max_turns > 1
    /\ conversation[3] = Message("assistant", <<"a">>)
    /\ messages[2] = [role |-> "user", content |-> <<>>]

\* C32: a run makes at most max_turns completion calls and comes to its
\* end: it returns its RunResult (or raises out of its setup when an
\* argument is ill typed); with max_turns <= 0 it makes no completion call,
\* calls the judge once and returns turns_count 0.
C32_RunTerminates ==
    /\ [](completion_calls <= (IF max_turns > 0 THEN max_turns ELSE 0))
    /\ []((max_turns <= 0 /\ RunStatus = "returned") =>
             /\ completion_calls = 0
             /\ judge_calls = 1
             /\ result.turns_count = 0)
    /\ <>(IF SetupRaises(models[1], initial_prompt)
          THEN RunStatus = "raised"
          ELSE RunStatus = "returned" /\ pc = "done")

\* a run that used every one of its turns and returned
C32_Witness ==
    /\ RunStatus = "returned"
    /\ max_turns = MaxTurns
    /\ completion_calls = max_turns

\* a run with a negative max_turns that returned
C32_NoTurns ==
    /\ RunStatus = "returned"
    /\ max_turns < 0
    /\ judge_calls = 1

\* the RunResults a caller already holds are still there, field by field
ResultsKept(old, new) ==
    \A m \in DOMAIN old :
        /\ m \in DOMAIN new
        /\ Len(old[m]) <= Len(new[m])
        /\ \A i \in 1..Len(old[m]) : new[m][i] = old[m][i]

\* C33: no step changes a RunResult that a run has returned, nor its
\* Conversation: not a later run of the batch, not generate_model_summary,
\* not generate_persona_cards; a run starts from a Conversation of its own.
C33_FinishedResultsUntouched ==
    [][/\ ResultsKept(results, results')
       /\ (pc = "task" /\ pc' \in {"completion", "judge"}) =>
              /\ conversation' = NewConversation(initial_prompt)
              /\ result'.conversation = conversation'
              /\ \A m \in DOMAIN results :
                    \A i \in 1..Len(results[m]) :
                        results[m][i].run_id # result'.run_id]_vars

\* two runs of a model, summarised and given a persona card
C33_Witness ==
    /\ pc = "cards"
    /\ summaries # <<>>
    /\ \E m \in DOMAIN results :
          /\ Len(results[m]) = 2
          /\ m \in DOMAIN persona_cards
          /\ results[m][1].run_id # results[m][2].run_id

\* C34: in every state of a run turns_count is the number of assistant
\* messages of the run's log (and of the log the RunResult holds); a turn
\* that fails before its assistant message is logged counts nothing.
C34_TurnsCountIsAssistantMessages ==
    /\ result.turns_count = Cardinality(AssistantIdx(conversation))
    /\ result.turns_count = Cardinality(AssistantIdx(result.conversation))
    /\ stop.reason = "error" => result.turns_count = stop.turn

\* a second turn that failed before its reply was logged
C34_Witness ==
    /\ RunStatus = "returned"
    /\ stop = [reason |-> "error", turn |-> 1]
    /\ result.turns_count = 1
    /\ Cardinality(AssistantIdx(conversation)) = 1

OptionalJudgeFields ==
    {"compliance_rate", "failure_count", "malformed_braces_count",
     "mirror_test_passed", "autonomy_score", "exploration_style",
     "judge_evaluation"}

NoneApplied(res) == \A f \in JudgeFields : res[f] = NoRun[f]
AllApplied(res) == \A f \in OptionalJudgeFields : res[f] # None

\* C35: a returned RunResult has all of the evaluation assignments or none
\* of them; when the judge's value is not a JSON object, or the evaluation
\* raises, it has none and the log ends with the evaluation-error note; when
\* the value is an object it has all of them.
C35_EvaluationAllOrNothing ==
    RunStatus = "returned" =>
        /\ NoneApplied(result) \/ AllApplied(result)
        /\ judge_outcome \in {"nondict", "raise"} =>
              /\ NoneApplied(result)
              /\ LastMessage(conversation) =
                    Message("system_note",
                            <<"EVALUATION ERROR: Error in evaluation: ",
                              judge_outcome>>)
        /\ judge_outcome = "value" =>
              /\ AllApplied(result)
              /\ LastMessage(conversation).content[1] #
                    "EVALUATION ERROR: Error in evaluation: "
        /\ \A m \in DOMAIN results :
              \A i \in 1..Len(results[m]) :
                  NoneApplied(results[m][i]) \/ AllApplied(results[m][i])

\* a run whose judge returned a value that is not an object
C35_Witness ==
    /\ RunStatus = "returned"
    /\ judge_outcome = "nondict"
    /\ result.turns_count > 0
    /\ NoneApplied(result)

\* C36: when the progress callback raises, the RunResult just produced is
\* in its model's list, the completed count has its incremented value, the
\* batch goes on with the next task (it ends only after its last task) and
\* no task is recorded as raised for it.
C36_CallbackErrorKeepsResult ==
    [][(callback_errors' # callback_errors) =>
          /\ results'[models[model_idx]] =
                 Append(results[models[model_idx]], result')
          /\ completed_tasks' = completed_tasks + 1
          /\ LastMessage(progress_calls') = <<completed_tasks', total_tasks>>
          /\ RunStatus' = "returned"
          /\ <<model_idx', run_index', pc'>> = Advance(model_idx, run_index)
          /\ (pc' = "done") = (Len(task_log') = total_tasks)]_vars

\* a batch that ended after callbacks raised, with every result in place
C36_Witness ==
    /\ pc = "done"
    /\ callback_errors = 2
    /\ completed_tasks = 4
    /\ Len(task_log) = 4
    /\ \A m \in DOMAIN results : Len(results[m]) = 2

SummaryNumbers ==
    {"total_runs", "avg_compliance_rate", "avg_failures",
     "avg_malformed_braces", "mirror_test_pass_rate", "avg_autonomy_score"}

SynthesisSucceeds == [kind |-> "text", value |-> "Thematic synthesis..."]
SynthesisFails == [kind |-> "raise", value |-> "judge unavailable"]

BatchEndpoints == {"results", "summaries", "personas", "report"}

\* C38: the status of a batch record is "running" when the record is
\* created, changes at most once, to "completed" or to "error", and never
\* afterwards; a request to the results, summaries, personas or report
\* endpoint is answered with 404 for a batch that does not exist, with 400
\* for a batch that is running or failed, and with data (200) only for a
\* completed batch.
C38_StatusChangesOnceAndGatesData ==
    [][/\ batch_status' # batch_status =>
             \/ batch_status = "absent" /\ batch_status' = "running"
             \/ /\ batch_status = "running"
                /\ batch_status' \in {"completed", "error"}
       /\ (last_response' # last_response
             /\ last_response'.endpoint \in BatchEndpoints) =>
             /\ batch_status' = batch_status
             /\ ~BatchExists(last_response'.batch_id) =>
                    last_response'.status_code = 404
             /\ (/\ BatchExists(last_response'.batch_id)
                 /\ batch_status \in {"running", "error"}) =>
                    last_response'.status_code = 400
             /\ last_response'.status_code = 200 =>
                    /\ BatchExists(last_response'.batch_id)
                    /\ batch_status = "completed"]_vars

\* the results of a completed batch were returned
C38_Witness ==
    /\ batch_status = "completed"
    /\ last_response = BatchResponse("results", "batch_1", 200)

\* a failed batch was refused
C38_RefusedAfterError ==
    /\ batch_status = "error"
    /\ last_response = BatchResponse("summaries", "batch_1", 400)

\* C39: every batch started through /api/run-batch eventually leaves the
\* "running" status, reaching "completed" or "error", whichever of its tasks,
\* judge calls and thematic syntheses fail, when every awaited call returns
\* or raises and the database works
C39_BatchLeavesRunning ==
    (batch_status = "running") ~> (batch_status \in {"completed", "error"})

\* a batch was completed although the judge failed on one of its runs and
\* the synthesis of a model failed
C39_Witness ==
    /\ batch_status = "completed"
    /\ \E m \in DOMAIN results : \E i \in DOMAIN results[m] :
          \E k \in DOMAIN results[m][i].conversation :
              results[m][i].conversation[k] \in EvaluationErrorNotes
    /\ \E i \in DOMAIN summaries :
          summaries[i].summary.thematic_synthesis =
              Some(SynthesisErrorText(SynthesisFails))

\* a batch was completed although every one of its tasks raised
C39_CompletedAfterFailedTasks ==
    /\ batch_status = "completed"
    /\ RaisedTasks # {}

\* the tasks of the batch that returned a RunResult
FinishedTasks == {i \in DOMAIN task_log : task_log[i].status = "returned"}

\* the RunResults stored for the batch
StoredRuns == TotalResults(results, DOMAIN results)

\* C40: the completed_tasks of a batch never exceeds the number of tasks
\* that finished successfully nor total_tasks, and once the status is
\* "completed" it is the number of runs stored for the batch, also when some
\* tasks failed
C40_CompletedTasksCountsFinishedTasks ==
    BatchExists("batch_1") =>
        /\ batch_completed_tasks <= Cardinality(FinishedTasks)
        /\ batch_completed_tasks <= total_tasks
        /\ batch_status = "completed" => batch_completed_tasks = StoredRuns

\* until the batch is completed, completed_tasks is the number of tasks that
\* have returned so far, which is the number of RunResults collected
C40_WhileRunningCountsFinishedTasks ==
    batch_status \in {"running", "error"} /\ pc # "scheduled" =>
        /\ batch_completed_tasks = Cardinality(FinishedTasks)
        /\ batch_completed_tasks = StoredRuns
        /\ batch_completed_tasks <= total_tasks

\* a completed batch whose completed_tasks is total_tasks although a task
\* raised and left no run
C40_CompletedCountsFailedTasks ==
    /\ batch_status = "completed"
    /\ RaisedTasks # {}
    /\ batch_completed_tasks = total_tasks
    /\ StoredRuns < total_tasks

====
